---- MODULE Spec2Model ----
(***************************************************************************)
(* Verbo: the conjugation analyzer of analyze_conjugations.py.             *)
(*                                                                         *)
(* A Python str is modelled as a sequence of characters.  A character is   *)
(* a token: an ASCII character stands for itself ("a", "A", " "), every    *)
(* other character is named by its code point ("u00F2" is U+00F2).         *)
(***************************************************************************)
EXTENDS Integers, Sequences, FiniteSets, TLC

VARIABLES
    pc,                    \* "call" before the function runs, its name after
    conj,                  \* normalize_conjugation: the argument
    result,                \* normalize_conjugation: the returned string
    infinitive,            \* the infinitive argument
    root,                  \* get_regular_*: the root argument
    group,                 \* get_regular_*: the group argument
    root_group,            \* get_verb_root: the returned (root, group)
    forms,                 \* get_regular_*: the returned list
    actual_conjugations,   \* compare_with_regular: the observed mapping
    irregularities,        \* compare_with_regular: the returned report
    data,                  \* extract_conjugations_from_json: the parsed JSON
    conjugations,          \* extract_conjugations_from_json: the returned dict
    verbs_json,            \* the content of the file verbs.json
    out_file,              \* the content of the file a script writes
    verb_database,         \* main_updated: the module-level verb_database
    call,                  \* the arguments of the running or last call
    ret,                   \* the value the last call returned
    saved                  \* whether the last call wrote verbs.json

\* The variables of the analyzer functions and those of the database scripts.
analyzer_vars == <<conj, result, infinitive, root, group, root_group, forms,
                   actual_conjugations, irregularities>>

ext_vars == <<data, conjugations, verbs_json, out_file, verb_database,
              call, ret, saved>>

vars == <<pc, analyzer_vars, ext_vars>>

(***************************************************************************)
(* Characters                                                              *)
(***************************************************************************)

\* The accented vowels U+00E0 a-grave, U+00E8 e-grave, U+00E9 e-acute,
\* U+00EC i-grave, U+00F2 o-grave, U+00F9 u-grave.
a_grave == "u00E0"
e_grave == "u00E8"
e_acute == "u00E9"
i_grave == "u00EC"
o_grave == "u00F2"
u_grave == "u00F9"

\* The characters the string literals of analyze_conjugations.py are made of:
\* U+221A (square root), U+2020 (dagger), U+00AE (registered sign),
\* U+00A9 (copyright sign), U+00A8 (diaeresis), U+2264 (less-or-equal),
\* U+03C0 (greek small pi).
c_radic  == "u221A"
c_dagger == "u2020"
c_reg    == "u00AE"
c_copy   == "u00A9"
c_uml    == "u00A8"
c_le     == "u2264"
c_pi     == "u03C0"

LowerLetters == <<"a","b","c","d","e","f","g","h","i","j","k","l","m",
                  "n","o","p","q","r","s","t","u","v","w","x","y","z",
                  "u00E0","u00E8","u00E9","u00EC","u00F2","u00F9","u03C0",
                  "u00F6","u00FC">>
UpperLetters == <<"A","B","C","D","E","F","G","H","I","J","K","L","M",
                  "N","O","P","Q","R","S","T","U","V","W","X","Y","Z",
                  "u00C0","u00C8","u00C9","u00CC","u00D2","u00D9","u03A0",
                  "u00D6","u00DC">>

\* str.isspace of one character: space, tab, newline.
Whitespace == {" ", "u0009", "u000A"}

\* str.lower of one character.
char_lower(c) ==
    IF \E i \in 1..Len(UpperLetters) : UpperLetters[i] = c
    THEN LowerLetters[CHOOSE i \in 1..Len(UpperLetters) : UpperLetters[i] = c]
    ELSE c

\* str.upper of one character.
char_upper(c) ==
    IF \E i \in 1..Len(LowerLetters) : LowerLetters[i] = c
    THEN UpperLetters[CHOOSE i \in 1..Len(LowerLetters) : LowerLetters[i] = c]
    ELSE c

(***************************************************************************)
(* str methods                                                             *)
(***************************************************************************)

str_lower(s) == [i \in 1..Len(s) |-> char_lower(s[i])]

str_upper(s) == [i \in 1..Len(s) |-> char_upper(s[i])]

RECURSIVE str_lstrip(_)
str_lstrip(s) ==
    IF s # <<>> /\ Head(s) \in Whitespace THEN str_lstrip(Tail(s)) ELSE s

RECURSIVE str_rstrip(_)
str_rstrip(s) ==
    IF s # <<>> /\ s[Len(s)] \in Whitespace
    THEN str_rstrip(SubSeq(s, 1, Len(s) - 1))
    ELSE s

str_strip(s) == str_rstrip(str_lstrip(s))

\* s.endswith(suffix)
str_endswith(s, suffix) ==
    /\ Len(s) >= Len(suffix)
    /\ SubSeq(s, Len(s) - Len(suffix) + 1, Len(s)) = suffix

\* The slice s[:-n] for n > 0: all but the last n characters, empty when
\* the string has n characters or fewer.
str_drop_last(s, n) == SubSeq(s, 1, IF Len(s) > n THEN Len(s) - n ELSE 0)

\* s.replace(old, new, 1): the first occurrence only.
RECURSIVE str_replace_first(_, _, _)
str_replace_first(s, old, new) ==
    IF Len(s) < Len(old) THEN s
    ELSE IF SubSeq(s, 1, Len(old)) = old
         THEN new \o SubSeq(s, Len(old) + 1, Len(s))
         ELSE <<Head(s)>> \o str_replace_first(Tail(s), old, new)

\* s.replace(old, new): every non-overlapping occurrence, left to right.
RECURSIVE str_replace(_, _, _)
str_replace(s, old, new) ==
    IF Len(s) < Len(old) THEN s
    ELSE IF SubSeq(s, 1, Len(old)) = old
         THEN new \o str_replace(SubSeq(s, Len(old) + 1, Len(s)), old, new)
         ELSE <<Head(s)>> \o str_replace(Tail(s), old, new)

(***************************************************************************)
(* normalize_conjugation                                                   *)
(***************************************************************************)

\* The replacements dict, in insertion order: each key is the two
\* characters the source file holds, each value one base letter.
replacements ==
    << << <<c_radic, c_dagger>>, <<"a">> >>,
       << <<c_radic, c_reg>>,    <<"e">> >>,
       << <<c_radic, c_copy>>,   <<"e">> >>,
       << <<c_radic, c_uml>>,    <<"i">> >>,
       << <<c_radic, c_le>>,     <<"o">> >>,
       << <<c_radic, c_pi>>,     <<"u">> >> >>

\* for old, new in replacements.items(): result = result.replace(old, new)
RECURSIVE apply_replacements(_, _)
apply_replacements(s, k) ==
    IF k > Len(replacements) THEN s
    ELSE apply_replacements(
             str_replace(s, replacements[k][1], replacements[k][2]), k + 1)

normalize_conjugation(c) == apply_replacements(str_strip(str_lower(c)), 1)

(***************************************************************************)
(* The regular-form generators                                             *)
(***************************************************************************)

ARE   == <<"A","R","E">>
ERE   == <<"E","R","E">>
IRE   == <<"I","R","E">>
OTHER_GROUP == <<"O","T","H","E","R">>

\* get_verb_root slicing two characters off an -ere infinitive.
get_verb_root_short_slice(inf) ==
    IF str_endswith(inf, <<"a","r","e">>) THEN <<str_drop_last(inf, 3), ARE>>
    ELSE IF str_endswith(inf, <<"e","r","e">>) THEN <<str_drop_last(inf, 2), ERE>>
    ELSE IF str_endswith(inf, <<"i","r","e">>) THEN <<str_drop_last(inf, 3), IRE>>
    ELSE <<inf, OTHER_GROUP>>

get_verb_root(inf) ==
    IF str_endswith(inf, <<"a","r","e">>) THEN <<str_drop_last(inf, 3), ARE>>
    ELSE IF str_endswith(inf, <<"e","r","e">>) THEN <<str_drop_last(inf, 3), ERE>>
    ELSE IF str_endswith(inf, <<"i","r","e">>) THEN <<str_drop_last(inf, 3), IRE>>
    ELSE <<inf, OTHER_GROUP>>

\* [f"{stem}{e}" for e in endings]
with_endings(stem, endings) == [i \in 1..Len(endings) |-> stem \o endings[i]]

\* get_regular_presente whose last branch is an else.
get_regular_presente_else(r, g) ==
    IF g = ARE
    THEN with_endings(r, << <<"o">>, <<"i">>, <<"a">>, <<"i","a","m","o">>,
                            <<"a","t","e">>, <<"a","n","o">> >>)
    ELSE IF g = ERE
    THEN with_endings(r, << <<"o">>, <<"i">>, <<"e">>, <<"i","a","m","o">>,
                            <<"e","t","e">>, <<"o","n","o">> >>)
    ELSE with_endings(r, << <<"o">>, <<"i">>, <<"e">>, <<"i","a","m","o">>,
                            <<"i","t","e">>, <<"o","n","o">> >>)

\* get_regular_presente whose -ire voi form takes the -ere ending.
get_regular_presente_ire_ete(r, g) ==
    IF g = ARE
    THEN with_endings(r, << <<"o">>, <<"i">>, <<"a">>, <<"i","a","m","o">>,
                            <<"a","t","e">>, <<"a","n","o">> >>)
    ELSE IF g = ERE
    THEN with_endings(r, << <<"o">>, <<"i">>, <<"e">>, <<"i","a","m","o">>,
                            <<"e","t","e">>, <<"o","n","o">> >>)
    ELSE IF g = IRE
    THEN with_endings(r, << <<"o">>, <<"i">>, <<"e">>, <<"i","a","m","o">>,
                            <<"e","t","e">>, <<"o","n","o">> >>)
    ELSE <<>>

get_regular_presente(r, g) ==
    IF g = ARE
    THEN with_endings(r, << <<"o">>, <<"i">>, <<"a">>, <<"i","a","m","o">>,
                            <<"a","t","e">>, <<"a","n","o">> >>)
    ELSE IF g = ERE
    THEN with_endings(r, << <<"o">>, <<"i">>, <<"e">>, <<"i","a","m","o">>,
                            <<"e","t","e">>, <<"o","n","o">> >>)
    ELSE IF g = IRE
    THEN with_endings(r, << <<"o">>, <<"i">>, <<"e">>, <<"i","a","m","o">>,
                            <<"i","t","e">>, <<"o","n","o">> >>)
    ELSE <<>>

\* get_regular_imperfetto whose -ire forms miss the root in the noi form.
get_regular_imperfetto_bare(r, g) ==
    IF g = ARE
    THEN with_endings(r, << <<"a","v","o">>, <<"a","v","i">>, <<"a","v","a">>,
                            <<"a","v","a","m","o">>, <<"a","v","a","t","e">>,
                            <<"a","v","a","n","o">> >>)
    ELSE IF g = ERE
    THEN with_endings(r, << <<"e","v","o">>, <<"e","v","i">>, <<"e","v","a">>,
                            <<"e","v","a","m","o">>, <<"e","v","a","t","e">>,
                            <<"e","v","a","n","o">> >>)
    ELSE IF g = IRE
    THEN [with_endings(r, << <<"i","v","o">>, <<"i","v","i">>, <<"i","v","a">>,
                            <<"i","v","a","m","o">>, <<"i","v","a","t","e">>,
                            <<"i","v","a","n","o">> >>)
             EXCEPT ![4] = <<"i","v","a","m","o">>]
    ELSE <<>>

get_regular_imperfetto(r, g) ==
    IF g = ARE
    THEN with_endings(r, << <<"a","v","o">>, <<"a","v","i">>, <<"a","v","a">>,
                            <<"a","v","a","m","o">>, <<"a","v","a","t","e">>,
                            <<"a","v","a","n","o">> >>)
    ELSE IF g = ERE
    THEN with_endings(r, << <<"e","v","o">>, <<"e","v","i">>, <<"e","v","a">>,
                            <<"e","v","a","m","o">>, <<"e","v","a","t","e">>,
                            <<"e","v","a","n","o">> >>)
    ELSE IF g = IRE
    THEN with_endings(r, << <<"i","v","o">>, <<"i","v","i">>, <<"i","v","a">>,
                            <<"i","v","a","m","o">>, <<"i","v","a","t","e">>,
                            <<"i","v","a","n","o">> >>)
    ELSE <<>>

\* futuro_stem without the -are rule.
futuro_stem_no_are(inf) == str_drop_last(inf, 1)

\* The stem of the futuro.
futuro_stem(inf) ==
    IF str_endswith(inf, <<"a","r","e">>)
    THEN str_drop_last(inf, 3) \o <<"e","r">>
    ELSE str_drop_last(inf, 1)

\* The endings of the futuro as the source file spells them: persons 0
\* and 2 end in the two characters U+221A U+2264 and U+221A U+2020.
futuro_endings ==
    << <<c_radic, c_le>>, <<"a","i">>, <<c_radic, c_dagger>>,
       <<"e","m","o">>, <<"e","t","e">>, <<"a","n","n","o">> >>

get_regular_futuro(inf) == with_endings(futuro_stem(inf), futuro_endings)

\* get_regular_passato_remoto whose last branch is an else.
get_regular_passato_remoto_else(r, g) ==
    IF g = ARE
    THEN with_endings(r, << <<"a","i">>, <<"a","s","t","i">>, <<c_radic, c_le>>,
                            <<"a","m","m","o">>, <<"a","s","t","e">>,
                            <<"a","r","o","n","o">> >>)
    ELSE IF g = ERE
    THEN with_endings(r, << <<"e","i">>, <<"e","s","t","i">>, <<c_radic, c_copy>>,
                            <<"e","m","m","o">>, <<"e","s","t","e">>,
                            <<"e","r","o","n","o">> >>)
    ELSE with_endings(r, << <<"i","i">>, <<"i","s","t","i">>, <<c_radic, c_uml>>,
                            <<"i","m","m","o">>, <<"i","s","t","e">>,
                            <<"i","r","o","n","o">> >>)

get_regular_passato_remoto(r, g) ==
    IF g = ARE
    THEN with_endings(r, << <<"a","i">>, <<"a","s","t","i">>, <<c_radic, c_le>>,
                            <<"a","m","m","o">>, <<"a","s","t","e">>,
                            <<"a","r","o","n","o">> >>)
    ELSE IF g = ERE
    THEN with_endings(r, << <<"e","i">>, <<"e","s","t","i">>, <<c_radic, c_copy>>,
                            <<"e","m","m","o">>, <<"e","s","t","e">>,
                            <<"e","r","o","n","o">> >>)
    ELSE IF g = IRE
    THEN with_endings(r, << <<"i","i">>, <<"i","s","t","i">>, <<c_radic, c_uml>>,
                            <<"i","m","m","o">>, <<"i","s","t","e">>,
                            <<"i","r","o","n","o">> >>)
    ELSE <<>>

(***************************************************************************)
(* compare_with_regular                                                    *)
(***************************************************************************)

Tenses == {"presente", "imperfetto", "futuro", "passato_remoto"}

\* sum(1 for i in range(6) if normalize_conjugation(actual[i]) !=
\*                            normalize_conjugation(regular[i]))
\* over the positions i..5 (0-based); position i is element i + 1.
\* count_mismatches over range(5).
RECURSIVE count_mismatches_five(_, _, _)
count_mismatches_five(actual, regular, i) ==
    IF i >= 5 THEN 0
    ELSE (IF normalize_conjugation(actual[i + 1]) #
             normalize_conjugation(regular[i + 1]) THEN 1 ELSE 0)
         + count_mismatches_five(actual, regular, i + 1)

RECURSIVE count_mismatches(_, _, _)
count_mismatches(actual, regular, i) ==
    IF i >= 6 THEN 0
    ELSE (IF normalize_conjugation(actual[i + 1]) #
             normalize_conjugation(regular[i + 1]) THEN 1 ELSE 0)
         + count_mismatches(actual, regular, i + 1)

\* check_tense recording a tense whatever its count.
check_tense_any_count(irr, tense, observed, regular) ==
    IF tense \in DOMAIN observed
    THEN LET actual == observed[tense] IN
         IF Len(actual) >= 6 /\ Len(regular) = 6
         THEN LET mismatches == count_mismatches(actual, regular, 0) IN
              IF mismatches >= 0
              THEN irr @@ (tense :> [mismatches |-> mismatches,
                                     actual |-> actual,
                                     expected |-> regular])
              ELSE irr
         ELSE irr
    ELSE irr

\* check_tense recording only the six compared forms.
check_tense_first_six(irr, tense, observed, regular) ==
    IF tense \in DOMAIN observed
    THEN LET actual == observed[tense] IN
         IF Len(actual) >= 6 /\ Len(regular) = 6
         THEN LET mismatches == count_mismatches(actual, regular, 0) IN
              IF mismatches > 0
              THEN irr @@ (tense :> [mismatches |-> mismatches,
                                     actual |-> SubSeq(actual, 1, 6),
                                     expected |-> regular])
              ELSE irr
         ELSE irr
    ELSE irr

\* One "Check <tense>" block: the report after the block, given the report
\* before it and the regular forms the block generates.
check_tense(irr, tense, observed, regular) ==
    IF tense \in DOMAIN observed
    THEN LET actual == observed[tense] IN
         IF Len(actual) >= 6 /\ Len(regular) = 6
         THEN LET mismatches == count_mismatches(actual, regular, 0) IN
              IF mismatches > 0
              THEN irr @@ (tense :> [mismatches |-> mismatches,
                                     actual |-> actual,
                                     expected |-> regular])
              ELSE irr
         ELSE irr
    ELSE irr

compare_with_regular(inf, observed) ==
    LET rg == get_verb_root(inf)
        r  == rg[1]
        g  == rg[2]
        i1 == check_tense(<<>>, "presente", observed,
                          get_regular_presente(r, g))
        i2 == check_tense(i1, "imperfetto", observed,
                          get_regular_imperfetto(r, g))
        i3 == check_tense(i2, "futuro", observed,
                          get_regular_futuro(inf))
        i4 == check_tense(i3, "passato_remoto", observed,
                          get_regular_passato_remoto(r, g))
    IN i4

\* The list compare_with_regular generates for a tense.
RegularForms(inf, tense) ==
    LET rg == get_verb_root(inf) IN
    CASE tense = "presente" -> get_regular_presente(rg[1], rg[2])
      [] tense = "imperfetto" -> get_regular_imperfetto(rg[1], rg[2])
      [] tense = "futuro" -> get_regular_futuro(inf)
      [] tense = "passato_remoto" -> get_regular_passato_remoto(rg[1], rg[2])

(***************************************************************************)
(* Inputs                                                                  *)
(***************************************************************************)

MaxConjLen == 4    \* longest enumerated argument of normalize_conjugation
MaxInfLen  == 3    \* longest enumerated infinitive
MaxRootLen == 1    \* longest enumerated root
MaxObsLen  == 7    \* longest observed list

StrUpTo(alphabet, n) == UNION {[1..k -> alphabet] : k \in 0..n}

parlare  == <<"p","a","r","l","a","r","e">>
andare   == <<"a","n","d","a","r","e">>
credere  == <<"c","r","e","d","e","r","e">>
dormire  == <<"d","o","r","m","i","r","e">>
porre    == <<"p","o","r","r","e">>
PARLARE  == <<"P","A","R","L","A","R","E">>

\* "PARLO" with a capital o-grave (U+00D2), "parlo" with an o-grave, "parlo".
PARLO_GRAVE == <<"P","A","R","L","u00D2">>
parlo_grave == <<"p","a","r","l","u00F2">>
parlo       == <<"p","a","r","l","o">>

ConjAlphabet == {"a", "O", "u00D2", "u00F2", c_radic, c_le, c_dagger, " "}

ConjInputs ==
    StrUpTo(ConjAlphabet, MaxConjLen)
        \cup {PARLO_GRAVE, parlo_grave, parlo,
              <<" ", "P","a","r","l", c_radic, c_le, " ">>}

Infinitives ==
    StrUpTo({"a", "r", "e", "i"}, MaxInfLen)
        \cup {parlare, andare, credere, dormire, porre, PARLARE}

Roots == StrUpTo({"a", "r"}, MaxRootLen) \cup {<<"p","a","r","l">>}

Groups == {ARE, ERE, IRE, OTHER_GROUP, <<"a","r","e">>, <<>>}

\* Observed lists are built from the six forms the generators give for the
\* verb, respelled and altered at chosen positions.
BaseForms(inf, tense) ==
    LET reg == RegularForms(inf, tense)
    IN IF reg = <<>> THEN get_regular_futuro(inf) ELSE reg

\* The accented vowel that each two-character key of the source stands for.
accent_of ==
    << << <<c_radic, c_dagger>>, <<a_grave>> >>,
       << <<c_radic, c_reg>>,    <<e_grave>> >>,
       << <<c_radic, c_copy>>,   <<e_acute>> >>,
       << <<c_radic, c_uml>>,    <<i_grave>> >>,
       << <<c_radic, c_le>>,     <<o_grave>> >>,
       << <<c_radic, c_pi>>,     <<u_grave>> >> >>

RECURSIVE with_accents(_, _)
with_accents(s, k) ==
    IF k > Len(accent_of) THEN s
    ELSE with_accents(str_replace(s, accent_of[k][1], accent_of[k][2]), k + 1)

Styles == {"source", "accent", "plain", "upper", "padded"}

Styled(f, style) ==
    CASE style = "accent" -> with_accents(f, 1)
      [] style = "plain"  -> normalize_conjugation(f)
      [] style = "upper"  -> str_upper(normalize_conjugation(f))
      [] style = "padded" -> <<" ">> \o f \o <<" ">>
      [] OTHER -> f

\* A list of n observed forms: position i (0-based) is the base form,
\* altered when i is in positions and respelled otherwise.
Observed(base, positions, style, n) ==
    [i \in 1..n |->
        IF i > Len(base) THEN <<"x">>
        ELSE IF (i - 1) \in positions THEN base[i] \o <<"x">>
        ELSE Styled(base[i], style)]

Patterns == {{}, {0}, {5}, {3, 4}, {0, 1, 2}, {0, 1, 2, 5},
             {0, 1, 2, 3, 4}, 0..5}

RichLists(inf, tense) ==
    LET b == BaseForms(inf, tense) IN
    {Observed(b, p, "source", 6) : p \in Patterns}
        \cup {Observed(b, p, st, 6) : p \in {{}, {0, 1, 2, 5}}, st \in Styles}
        \cup {Observed(b, p, "source", n) :
                 p \in {{}, {0}}, n \in {0, 5} \cup 7..MaxObsLen}

\* What a tense other than the chosen one holds.
BasicOptions == {"absent", "regular", "altered"}

BasicList(inf, tense, option) ==
    Observed(BaseForms(inf, tense),
             IF option = "altered" THEN 0..5 ELSE {}, "source", 6)

\* A key of the observed mapping that compare_with_regular never reads.
ExtraTense == "condizionale"

\* The mappings in which one tense takes any of its rich lists and every
\* other tense is absent, regular or altered everywhere.
TenseMappings(inf) ==
    UNION {
        { [t \in {k \in Tenses : k = focus \/ o[k] # "absent"} |->
              IF t = focus THEN r ELSE BasicList(inf, t, o[t])] :
            r \in RichLists(inf, focus),
            o \in [Tenses \ {focus} -> BasicOptions] }
        : focus \in Tenses }

\* The mappings of one tense and the extra key.
ExtraMappings(inf) ==
    UNION {
        { (focus :> r) @@ (ExtraTense :> Observed(r, {}, "source", 6)) :
            r \in RichLists(inf, focus) }
        : focus \in Tenses }

ObservedMappings(inf) == TenseMappings(inf) \cup ExtraMappings(inf)

vado_presente ==
    << <<"v","a","d","o">>, <<"v","a","i">>, <<"v","a">>,
       <<"a","n","d","i","a","m","o">>, <<"a","n","d","a","t","e">>,
       <<"v","a","n","n","o">> >>

CompareInfinitives == {parlare, credere, dormire, porre}

(***************************************************************************)
(* The state machine: one call of one function per behaviour               *)
(***************************************************************************)

\* The variables of the database scripts when no script runs.
BlankExt ==
    /\ data = <<>>
    /\ conjugations = <<>>
    /\ verbs_json = <<>>
    /\ out_file = <<>>
    /\ verb_database = <<>>
    /\ call = <<>>
    /\ ret = <<>>
    /\ saved = FALSE

Blank ==
    /\ pc = "call"
    /\ result = <<>>
    /\ root_group = << <<>>, <<>> >>
    /\ forms = <<>>
    /\ irregularities = <<>>

Init ==
    /\ Blank
    /\ BlankExt
    /\ conj = <<>>
    /\ root = <<>>
    /\ group = <<>>
    /\ \/ /\ infinitive \in CompareInfinitives
          /\ actual_conjugations \in ObservedMappings(infinitive)
       \/ /\ infinitive = andare
          /\ actual_conjugations \in
                 {m @@ ("presente" :> vado_presente) :
                     m \in {<<>>, ("futuro" :> vado_presente),
                            (ExtraTense :> vado_presente)}}

CompareWithRegular ==
    /\ pc = "call"
    /\ irregularities' = compare_with_regular(infinitive, actual_conjugations)
    /\ pc' = "compare_with_regular"
    /\ UNCHANGED <<conj, result, infinitive, root, group, root_group, forms,
                   actual_conjugations>>
    /\ UNCHANGED ext_vars

Next == CompareWithRegular

Spec == Init /\ [][Next]_vars

InitNormalize ==
    /\ Blank
    /\ BlankExt
    /\ conj \in ConjInputs
    /\ infinitive = <<>>
    /\ root = <<>>
    /\ group = <<>>
    /\ actual_conjugations = <<>>

NormalizeConjugation ==
    /\ pc = "call"
    /\ result' = normalize_conjugation(conj)
    /\ pc' = "normalize_conjugation"
    /\ UNCHANGED <<conj, infinitive, root, group, root_group, forms,
                   actual_conjugations, irregularities>>
    /\ UNCHANGED ext_vars

NextNormalize == NormalizeConjugation

SpecNormalize == InitNormalize /\ [][NextNormalize]_vars

InitGenerate ==
    /\ Blank
    /\ BlankExt
    /\ conj = <<>>
    /\ infinitive \in Infinitives
    /\ root \in Roots
    /\ group \in Groups
    /\ actual_conjugations = <<>>

GetVerbRoot ==
    /\ pc = "call"
    /\ root_group' = get_verb_root(infinitive)
    /\ pc' = "get_verb_root"
    /\ UNCHANGED <<conj, result, infinitive, root, group, forms,
                   actual_conjugations, irregularities>>
    /\ UNCHANGED ext_vars

GetRegularPresente ==
    /\ pc = "call"
    /\ forms' = get_regular_presente(root, group)
    /\ pc' = "get_regular_presente"
    /\ UNCHANGED <<conj, result, infinitive, root, group, root_group,
                   actual_conjugations, irregularities>>
    /\ UNCHANGED ext_vars

GetRegularImperfetto ==
    /\ pc = "call"
    /\ forms' = get_regular_imperfetto(root, group)
    /\ pc' = "get_regular_imperfetto"
    /\ UNCHANGED <<conj, result, infinitive, root, group, root_group,
                   actual_conjugations, irregularities>>
    /\ UNCHANGED ext_vars

GetRegularFuturo ==
    /\ pc = "call"
    /\ forms' = get_regular_futuro(infinitive)
    /\ pc' = "get_regular_futuro"
    /\ UNCHANGED <<conj, result, infinitive, root, group, root_group,
                   actual_conjugations, irregularities>>
    /\ UNCHANGED ext_vars

GetRegularPassatoRemoto ==
    /\ pc = "call"
    /\ forms' = get_regular_passato_remoto(root, group)
    /\ pc' = "get_regular_passato_remoto"
    /\ UNCHANGED <<conj, result, infinitive, root, group, root_group,
                   actual_conjugations, irregularities>>
    /\ UNCHANGED ext_vars

NextGenerate ==
    \/ GetVerbRoot
    \/ GetRegularPresente
    \/ GetRegularImperfetto
    \/ GetRegularFuturo
    \/ GetRegularPassatoRemoto

SpecGenerate == InitGenerate /\ [][NextGenerate]_vars

(***************************************************************************)
(* Properties of compare_with_regular (Spec)                               *)
(***************************************************************************)

Compared == pc = "compare_with_regular"

\* The positions 0..5 at which the observed and the regular form of a
\* tense differ after normalization.
DifferingPositions(tense) ==
    {i \in 0..5 :
        normalize_conjugation(actual_conjugations[tense][i + 1]) #
        normalize_conjugation(RegularForms(infinitive, tense)[i + 1])}

\* The tense can be compared: observed, at least 6 observed forms, 6
\* regular forms.
Comparable(tense) ==
    /\ tense \in DOMAIN actual_conjugations
    /\ Len(actual_conjugations[tense]) >= 6
    /\ Len(RegularForms(infinitive, tense)) = 6

\* C1: a tense is a key of the report exactly when it is a key of the
\* observed mapping, has at least 6 observed and 6 regular forms, and at
\* least one of the positions 0..5 differs after normalization; the report
\* has no key outside the four tenses.
C1_ReportKeys ==
    Compared =>
        /\ DOMAIN irregularities \subseteq Tenses
        /\ \A t \in Tenses :
              t \in DOMAIN irregularities <=>
                  (Comparable(t) /\ DifferingPositions(t) # {})

C1_Witness ==
    /\ Compared
    /\ infinitive = parlare
    /\ DOMAIN actual_conjugations = Tenses
    /\ DOMAIN irregularities = {"futuro"}

\* C2: the mismatch count of a reported tense is the number of positions
\* 0..5 that differ after normalization, between 1 and 6; for andare with
\* the observed presente vado, vai, va, andiamo, andate, vanno the regular
\* forms are ando, andi, anda, andiamo, andate, andano, the differing
\* positions are 0, 1, 2 and 5 and the count is 4.
C2_MismatchCount ==
    Compared =>
        /\ \A t \in DOMAIN irregularities :
              /\ irregularities[t].mismatches =
                     Cardinality(DifferingPositions(t))
              /\ irregularities[t].mismatches \in 1..6
        /\ (infinitive = andare /\ "presente" \in DOMAIN actual_conjugations
               /\ actual_conjugations["presente"] = vado_presente) =>
              /\ "presente" \in DOMAIN irregularities
              /\ irregularities["presente"].expected =
                     << <<"a","n","d","o">>, <<"a","n","d","i">>,
                        <<"a","n","d","a">>,
                        <<"a","n","d","i","a","m","o">>,
                        <<"a","n","d","a","t","e">>,
                        <<"a","n","d","a","n","o">> >>
              /\ DifferingPositions("presente") = {0, 1, 2, 5}
              /\ irregularities["presente"].mismatches = 4

C2_Witness ==
    /\ Compared
    /\ infinitive = andare
    /\ actual_conjugations = ("presente" :> vado_presente)
    /\ irregularities["presente"].mismatches = 4

\* C5: an observed tense with fewer than 6 forms is skipped, and so are
\* presente, imperfetto and passato_remoto of a verb of group OTHER; the
\* futuro of such a verb with at least 6 observed forms is still generated
\* (6 forms) and compared (reported exactly when a position differs).
C5_SkippedTenses ==
    Compared =>
        LET g == get_verb_root(infinitive)[2] IN
        /\ \A t \in Tenses \cap DOMAIN actual_conjugations :
              (\/ Len(actual_conjugations[t]) < 6
               \/ (g = OTHER_GROUP /\ t # "futuro"))
                  => t \notin DOMAIN irregularities
        /\ (/\ g = OTHER_GROUP
            /\ "futuro" \in DOMAIN actual_conjugations
            /\ Len(actual_conjugations["futuro"]) >= 6) =>
              /\ Len(RegularForms(infinitive, "futuro")) = 6
              /\ "futuro" \in DOMAIN irregularities <=>
                     DifferingPositions("futuro") # {}
              /\ "futuro" \in DOMAIN irregularities =>
                     irregularities["futuro"].expected =
                         RegularForms(infinitive, "futuro")

C5_Witness ==
    /\ Compared
    /\ infinitive = porre
    /\ "presente" \in DOMAIN actual_conjugations
    /\ Len(actual_conjugations["presente"]) >= 6
    /\ "imperfetto" \in DOMAIN actual_conjugations
    /\ Len(actual_conjugations["imperfetto"]) = 5
    /\ DOMAIN irregularities = {"futuro"}

(***************************************************************************)
(* Properties of normalize_conjugation (SpecNormalize)                     *)
(***************************************************************************)

Normalized == pc = "normalize_conjugation"

AccentedVowels == {a_grave, e_grave, e_acute, i_grave, o_grave, u_grave}

\* C3: normalization is case- and accent-insensitive: the result holds no
\* accented vowel (each one is mapped to its base letter), and "PARLO"
\* written with a capital o-grave normalizes to the same key as "parlo".
C3_AccentInsensitive ==
    Normalized =>
        /\ \A i \in 1..Len(result) : result[i] \notin AccentedVowels
        /\ conj = PARLO_GRAVE => result = normalize_conjugation(parlo)

\* C9: normalization is idempotent: normalizing a returned key gives the
\* key back.
C9_Idempotent ==
    Normalized => normalize_conjugation(result) = result

C9_Witness ==
    /\ Normalized
    /\ conj = <<" ", "O", c_radic, c_le>>
    /\ result = <<"o", "o">>

(***************************************************************************)
(* Properties of the generators (SpecGenerate)                             *)
(***************************************************************************)

\* C4: the futuro of parlare is parlero (o-grave), parlerai, parlera
\* (a-grave), parleremo, parlerete, parleranno; for every infinitive form 0
\* is the stem followed by the single letter o-grave, form 2 the stem
\* followed by the single letter a-grave, and forms 1, 3, 4, 5 the stem
\* followed by ai, emo, ete, anno.
C4_FuturoForms ==
    pc = "get_regular_futuro" =>
        /\ Len(forms) = 6
        /\ forms[1] = futuro_stem(infinitive) \o <<o_grave>>
        /\ forms[2] = futuro_stem(infinitive) \o <<"a","i">>
        /\ forms[3] = futuro_stem(infinitive) \o <<a_grave>>
        /\ forms[4] = futuro_stem(infinitive) \o <<"e","m","o">>
        /\ forms[5] = futuro_stem(infinitive) \o <<"e","t","e">>
        /\ forms[6] = futuro_stem(infinitive) \o <<"a","n","n","o">>
        /\ infinitive = parlare =>
              forms = << <<"p","a","r","l","e","r", o_grave>>,
                         <<"p","a","r","l","e","r","a","i">>,
                         <<"p","a","r","l","e","r", a_grave>>,
                         <<"p","a","r","l","e","r","e","m","o">>,
                         <<"p","a","r","l","e","r","e","t","e">>,
                         <<"p","a","r","l","e","r","a","n","n","o">> >>

Suffixes == {<<"a","r","e">>, <<"e","r","e">>, <<"i","r","e">>}

\* C6: for an infinitive ending in are, ere or ire, get_verb_root returns
\* (root, group) with root + suffix = infinitive and group the suffix in
\* upper case; for every other infinitive it returns (infinitive, OTHER).
C6_VerbRoot ==
    pc = "get_verb_root" =>
        IF \E suf \in Suffixes :
               /\ Len(infinitive) >= 3
               /\ SubSeq(infinitive, Len(infinitive) - 2, Len(infinitive)) = suf
        THEN LET suf == SubSeq(infinitive, Len(infinitive) - 2, Len(infinitive))
             IN /\ root_group[1] \o suf = infinitive
                /\ root_group[2] = str_upper(suf)
        ELSE root_group = <<infinitive, OTHER_GROUP>>

C6_Witness ==
    /\ pc = "get_verb_root"
    /\ infinitive = credere
    /\ root_group = << <<"c","r","e","d">>, ERE >>

\* C7: for group ARE, ERE or IRE and every root, the empty one included,
\* get_regular_presente and get_regular_imperfetto return exactly 6
\* non-empty strings, each starting with the root.
C7_SixPrefixedForms ==
    (pc \in {"get_regular_presente", "get_regular_imperfetto"}
         /\ group \in {ARE, ERE, IRE}) =>
        /\ Len(forms) = 6
        /\ \A i \in 1..Len(forms) :
              /\ forms[i] # <<>>
              /\ Len(forms[i]) > Len(root)
              /\ SubSeq(forms[i], 1, Len(root)) = root

C7_Witness ==
    /\ pc = "get_regular_imperfetto"
    /\ root = <<>>
    /\ group = IRE
    /\ forms[6] = <<"i","v","a","n","o">>

\* C8: for group OTHER and any group value other than ARE, ERE, IRE,
\* get_regular_presente, get_regular_imperfetto and
\* get_regular_passato_remoto return an empty list, while
\* get_regular_futuro returns exactly 6 entries for every infinitive.
C8_OtherGroup ==
    /\ (pc \in {"get_regular_presente", "get_regular_imperfetto",
                "get_regular_passato_remoto"}
           /\ group \notin {ARE, ERE, IRE}) => forms = <<>>
    /\ pc = "get_regular_futuro" => Len(forms) = 6

C8_Witness ==
    /\ pc = "get_regular_passato_remoto"
    /\ group = OTHER_GROUP
    /\ root = <<"p","a","r","l">>
    /\ forms = <<>>

\* The stem of the futuro as the rule states it.
StemRule(inf) ==
    IF Len(inf) >= 3 /\ inf[Len(inf) - 2] = "a" /\ inf[Len(inf) - 1] = "r"
           /\ inf[Len(inf)] = "e"
    THEN [i \in 1..(Len(inf) - 1) |->
             IF i <= Len(inf) - 3 THEN inf[i]
             ELSE IF i = Len(inf) - 2 THEN "e" ELSE "r"]
    ELSE [i \in 1..(Len(inf) - 1) |-> inf[i]]

\* C10: the futuro stem comes from the full infinitive only: the
\* infinitive minus its last 3 characters plus er when it ends in are,
\* otherwise the infinitive minus its last character; that holds for every
\* group, OTHER included, and the result always has 6 forms, each the stem
\* followed by a non-empty ending.
C10_FuturoStem ==
    pc = "get_regular_futuro" =>
        /\ Len(forms) = 6
        /\ \A i \in 1..Len(forms) :
              /\ Len(forms[i]) > Len(StemRule(infinitive))
              /\ SubSeq(forms[i], 1, Len(StemRule(infinitive))) =
                     StemRule(infinitive)
        /\ forms[2] = StemRule(infinitive) \o <<"a","i">>
        /\ forms[6] = StemRule(infinitive) \o <<"a","n","n","o">>

C10_Witness ==
    /\ pc = "get_regular_futuro"
    /\ infinitive = porre
    /\ forms[2] = <<"p","o","r","r","a","i">>

\* C11: get_regular_passato_remoto appends to the root the endings
\* ai, asti, o-grave, ammo, aste, arono (ARE), ei, esti, e-acute, emmo,
\* este, erono (ERE), ii, isti, i-grave, immo, iste, irono (IRE); the third
\* person ending is the single accented letter.
C11_PassatoRemotoEndings ==
    pc = "get_regular_passato_remoto" =>
        /\ group = ARE =>
              forms = [i \in 1..6 |-> root \o
                         << <<"a","i">>, <<"a","s","t","i">>, <<o_grave>>,
                            <<"a","m","m","o">>, <<"a","s","t","e">>,
                            <<"a","r","o","n","o">> >>[i]]
        /\ group = ERE =>
              forms = [i \in 1..6 |-> root \o
                         << <<"e","i">>, <<"e","s","t","i">>, <<e_acute>>,
                            <<"e","m","m","o">>, <<"e","s","t","e">>,
                            <<"e","r","o","n","o">> >>[i]]
        /\ group = IRE =>
              forms = [i \in 1..6 |-> root \o
                         << <<"i","i">>, <<"i","s","t","i">>, <<i_grave>>,
                            <<"i","m","m","o">>, <<"i","s","t","e">>,
                            <<"i","r","o","n","o">> >>[i]]

(***************************************************************************)
(* The ending tables and their use by compare_with_regular (SpecTables)    *)
(***************************************************************************)

parlo_presente ==
    << <<"p","a","r","l","o">>, <<"p","a","r","l","i">>, <<"p","a","r","l","a">>, <<"p","a","r","l","i","a","m","o">>, <<"p","a","r","l","a","t","e">>, <<"p","a","r","l","a","n","o">> >>

\* parlare with the regular presente, the regular presente in capitals,
\* and the presente with one altered form.
InitTables ==
    /\ Blank
    /\ BlankExt
    /\ conj = <<>>
    /\ \/ /\ infinitive \in {<<>>, parlare}
          /\ root \in Roots
          /\ group \in Groups
          /\ actual_conjugations = <<>>
       \/ /\ infinitive \in {parlare, credere}
          /\ root = <<>>
          /\ group = <<>>
          /\ actual_conjugations \in
                 {("presente" :> parlo_presente),
                  ("presente" :> [i \in 1..6 |-> str_upper(parlo_presente[i])]),
                  ("presente" :> [parlo_presente EXCEPT ![3] = <<"p","a","r","l","e">>])}

NextTables ==
    \/ GetRegularPresente
    \/ GetRegularImperfetto
    \/ CompareWithRegular

SpecTables == InitTables /\ [][NextTables]_vars

PresenteEndings(g) ==
    IF g = ARE THEN << <<"o">>, <<"i">>, <<"a">>, <<"i","a","m","o">>,
                       <<"a","t","e">>, <<"a","n","o">> >>
    ELSE IF g = ERE THEN << <<"o">>, <<"i">>, <<"e">>, <<"i","a","m","o">>,
                            <<"e","t","e">>, <<"o","n","o">> >>
    ELSE << <<"o">>, <<"i">>, <<"e">>, <<"i","a","m","o">>,
            <<"i","t","e">>, <<"o","n","o">> >>

\* The imperfetto endings: the theme vowel a, e or i before vo, vi, va,
\* vamo, vate, vano.
ImperfettoEndings(g) ==
    LET v == IF g = ARE THEN "a" ELSE IF g = ERE THEN "e" ELSE "i" IN
    << <<v,"v","o">>, <<v,"v","i">>, <<v,"v","a">>, <<v,"v","a","m","o">>,
       <<v,"v","a","t","e">>, <<v,"v","a","n","o">> >>

\* C12: get_regular_presente and get_regular_imperfetto append to the root
\* the ending tables in person order 0..5, so for parlare with the observed
\* presente parlo, parli, parla, parliamo, parlate, parlano the tense
\* presente is absent from the report.
C12_EndingTables ==
    /\ (pc = "get_regular_presente" /\ group \in {ARE, ERE, IRE}) =>
          /\ Len(forms) = 6
          /\ \A i \in 1..6 : forms[i] = root \o PresenteEndings(group)[i]
    /\ (pc = "get_regular_imperfetto" /\ group \in {ARE, ERE, IRE}) =>
          /\ Len(forms) = 6
          /\ \A i \in 1..6 : forms[i] = root \o ImperfettoEndings(group)[i]
    /\ (/\ Compared
        /\ infinitive = parlare
        /\ "presente" \in DOMAIN actual_conjugations
        /\ actual_conjugations["presente"] = parlo_presente) =>
          "presente" \notin DOMAIN irregularities

C12_Witness ==
    /\ Compared
    /\ infinitive = parlare
    /\ actual_conjugations = ("presente" :> parlo_presente)
    /\ irregularities = <<>>

(***************************************************************************)
(* extract_conjugations_from_json (SpecExtract)                            *)
(***************************************************************************)

\* d.get(key, default) of a dict.
dict_get(d, key, default) == IF key \in DOMAIN d THEN d[key] ELSE default

\* dict_append keeping a value once.
dict_append_unique(d, key, value) ==
    IF key \notin DOMAIN d THEN d @@ (key :> <<value>>)
    ELSE IF \E i \in 1..Len(d[key]) : d[key][i] = value THEN d
    ELSE [d EXCEPT ![key] = Append(@, value)]

\* if key not in d: d[key] = []
\* d[key].append(value)
dict_append(d, key, value) ==
    IF key \notin DOMAIN d THEN d @@ (key :> <<value>>)
    ELSE [d EXCEPT ![key] = Append(@, value)]

\* The body of the loop for one entry: the dict after it.
extract_entry(conjs, entry) ==
    LET g == dict_get(entry, "group", "")
        value == dict_get(entry, "value", <<>>)
    IN IF g = "indicative/present" THEN dict_append(conjs, "presente", value)
       ELSE IF g = "indicative/imperfect"
            THEN dict_append(conjs, "imperfetto", value)
       ELSE IF g = "indicative/future"
            THEN dict_append(conjs, "futuro", value)
       ELSE IF g = "indicative/pasthistoric"
            THEN dict_append(conjs, "passato_remoto", value)
       ELSE conjs

\* The loop over the entries k, k + 1, ... of the list.
RECURSIVE extract_entries(_, _, _)
extract_entries(conjs, entries, k) ==
    IF k > Len(entries) THEN conjs
    ELSE extract_entries(extract_entry(conjs, entries[k]), entries, k + 1)

extract_conjugations_from_json(d) ==
    extract_entries(<<>>, dict_get(d, "conjugations", <<>>), 1)

MaxEntries == 3    \* longest "conjugations" list

EntryTags == {"indicative/present", "indicative/imperfect",
              "indicative/future", "indicative/pasthistoric",
              "conditional/present"}

EntryValues == {<<"a">>, <<"b">>}

\* Records with both keys, and records that miss one of them.
Entries ==
    {[group |-> g, value |-> v] : g \in EntryTags, v \in EntryValues}
        \cup {("value" :> <<"a">>), ("group" :> "indicative/future")}

InitExtract ==
    /\ Blank
    /\ conj = <<>>
    /\ infinitive = <<>>
    /\ root = <<>>
    /\ group = <<>>
    /\ actual_conjugations = <<>>
    /\ \E n \in 0..MaxEntries : \E es \in [1..n -> Entries] :
          data \in {("conjugations" :> es), ("word" :> parlare)}
    /\ conjugations = <<>>
    /\ verbs_json = <<>>
    /\ out_file = <<>>
    /\ verb_database = <<>>
    /\ call = <<>>
    /\ ret = <<>>
    /\ saved = FALSE

ExtractConjugationsFromJson ==
    /\ pc = "call"
    /\ conjugations' = extract_conjugations_from_json(data)
    /\ pc' = "extract_conjugations_from_json"
    /\ UNCHANGED analyzer_vars
    /\ UNCHANGED <<data, verbs_json, out_file, verb_database, call, ret,
                   saved>>

NextExtract == ExtractConjugationsFromJson

SpecExtract == InitExtract /\ [][NextExtract]_vars

\* The tense each of the four tags stands for.
TenseOfTag ==
    ("indicative/present" :> "presente")
        @@ ("indicative/imperfect" :> "imperfetto")
        @@ ("indicative/future" :> "futuro")
        @@ ("indicative/pasthistoric" :> "passato_remoto")

\* The records of the input, in input order.
InputEntries ==
    IF "conjugations" \in DOMAIN data THEN data["conjugations"] ELSE <<>>

\* The positions of the records that carry the tag, and the value of the
\* j-th of them (the empty string when the record has no value).
TaggedPositions(tag) ==
    {k \in 1..Len(InputEntries) :
        "group" \in DOMAIN InputEntries[k] /\ InputEntries[k]["group"] = tag}

TaggedValue(tag, j) ==
    LET k == CHOOSE k \in TaggedPositions(tag) :
                 Cardinality({h \in TaggedPositions(tag) : h <= k}) = j
    IN IF "value" \in DOMAIN InputEntries[k]
       THEN InputEntries[k]["value"] ELSE <<>>

\* C13: the four tags map to presente, imperfetto, futuro, passato_remoto;
\* the list of a tense is the values of the records carrying its tag, in
\* input order, nothing reordered or dropped; records with another tag are
\* ignored, and a tense is a key only if a record carried its tag.
C13_ExtractByTag ==
    pc = "extract_conjugations_from_json" =>
        /\ DOMAIN conjugations \subseteq Tenses
        /\ \A tag \in DOMAIN TenseOfTag :
              LET t == TenseOfTag[tag] IN
              /\ t \in DOMAIN conjugations <=> TaggedPositions(tag) # {}
              /\ t \in DOMAIN conjugations =>
                    /\ Len(conjugations[t]) = Cardinality(TaggedPositions(tag))
                    /\ \A j \in 1..Len(conjugations[t]) :
                          conjugations[t][j] = TaggedValue(tag, j)

C13_Witness ==
    /\ pc = "extract_conjugations_from_json"
    /\ data = ("conjugations" :>
                  << [group |-> "indicative/future", value |-> <<"b">>],
                     [group |-> "conditional/present", value |-> <<"a">>],
                     [group |-> "indicative/future", value |-> <<"b">>] >>)
    /\ conjugations = ("futuro" :> << <<"b">>, <<"b">> >>)

(***************************************************************************)
(* Two invocations of compare_with_regular, interleaved (SpecPure)         *)
(***************************************************************************)

Callers == {1, 2}

\* The order of the "Check <tense>" blocks.
BlockOrder == <<"presente", "imperfetto", "futuro", "passato_remoto">>

PureMappings(inf) ==
    { [t \in d |-> Observed(BaseForms(inf, t), p, "source", n)] :
        d \in {{"presente"}, {"presente", "futuro"}, Tenses},
        p \in {{}, {0, 1, 2, 5}},
        n \in {6, MaxObsLen} }

\* call[c] holds the arguments of invocation c and the block it is at;
\* ret[c] is its local dict irregularities.
InitPure ==
    /\ Blank
    /\ conj = <<>>
    /\ infinitive = <<>>
    /\ root = <<>>
    /\ group = <<>>
    /\ actual_conjugations = <<>>
    /\ data = <<>>
    /\ conjugations = <<>>
    /\ verbs_json = <<>>
    /\ out_file = <<>>
    /\ verb_database = <<>>
    /\ saved = FALSE
    /\ \E i1 \in {parlare, porre}, i2 \in {parlare, porre} :
          \E m1 \in PureMappings(i1), m2 \in PureMappings(i2) :
             call = (1 :> [infinitive |-> i1, actual_conjugations |-> m1,
                           at |-> 1])
                    @@ (2 :> [infinitive |-> i2, actual_conjugations |-> m2,
                              at |-> 1])
    /\ ret = [c \in Callers |-> <<>>]

\* Invocation c runs its next "Check <tense>" block.
CheckBlock(c) ==
    /\ call[c].at <= Len(BlockOrder)
    /\ LET tense == BlockOrder[call[c].at] IN
       ret' = [ret EXCEPT ![c] =
                  check_tense(ret[c], tense, call[c].actual_conjugations,
                              RegularForms(call[c].infinitive, tense))]
    /\ call' = [call EXCEPT ![c].at = @ + 1]
    /\ UNCHANGED pc
    /\ UNCHANGED analyzer_vars
    /\ UNCHANGED <<data, conjugations, verbs_json, out_file, verb_database,
                   saved>>

NextPure == \E c \in Callers : CheckBlock(c)

SpecPure == InitPure /\ [][NextPure]_vars

Returned(c) == call[c].at > Len(BlockOrder)

\* The entries of a returned report carry the count, the whole observed
\* list and the six regular forms; equal inputs give equal reports.
PureReports ==
    /\ \A c \in Callers : Returned(c) =>
          \A t \in DOMAIN ret[c] :
             /\ ret[c][t].mismatches \in 1..6
             /\ ret[c][t].actual = call[c].actual_conjugations[t]
             /\ ret[c][t].expected = RegularForms(call[c].infinitive, t)
             /\ Len(ret[c][t].expected) = 6
    /\ (/\ Returned(1)
        /\ Returned(2)
        /\ call[1].infinitive = call[2].infinitive
        /\ call[1].actual_conjugations = call[2].actual_conjugations)
          => ret[1] = ret[2]

\* No step changes the arguments of either invocation.
PureFrame ==
    \A c \in Callers :
        /\ call'[c].infinitive = call[c].infinitive
        /\ call'[c].actual_conjugations = call[c].actual_conjugations

\* C14: compare_with_regular is pure: every report entry carries the
\* mismatch count, the full observed sequence (entries beyond position 5
\* included) and the six regular forms; the call leaves the observed
\* mapping unchanged; two invocations on equal inputs, in any interleaving,
\* return equal reports.
C14_Pure == [](PureReports) /\ [][PureFrame]_vars

C14_Witness ==
    /\ Returned(1)
    /\ Returned(2)
    /\ call[1].infinitive = parlare
    /\ call[1].actual_conjugations = call[2].actual_conjugations
    /\ "futuro" \in DOMAIN ret[2]
    /\ Len(ret[2]["futuro"].actual) = MaxObsLen
    /\ ret[1] = ret[2]

(***************************************************************************)
(* mark_irregular.py: the verb database and mark_tenses_irregular          *)
(***************************************************************************)

\* The characters in code point order, as far as the model uses them.
CodePoints ==
    <<"u0009", "u000A", " ", "-",
      "A","B","C","D","E","F","G","H","I","J","K","L","M",
      "N","O","P","Q","R","S","T","U","V","W","X","Y","Z", "_",
      "a","b","c","d","e","f","g","h","i","j","k","l","m",
      "n","o","p","q","r","s","t","u","v","w","x","y","z",
      "u00A8", "u00A9", "u00AE",
      "u00C0","u00C8","u00C9","u00CC","u00D2","u00D9",
      "u00E0","u00E8","u00E9","u00EC","u00F2","u00F9",
      "u03A0", "u03C0", "u2020", "u221A", "u2264">>

\* The rank of each character in CodePoints.
CodePointRank ==
    [c \in {CodePoints[i] : i \in 1..Len(CodePoints)} |->
        CHOOSE i \in 1..Len(CodePoints) : CodePoints[i] = c]

\* ord(c), up to an order-preserving renumbering.
ord(c) == CodePointRank[c]

\* a < b on str: lexicographic by code point, a proper prefix first.
RECURSIVE str_lt(_, _)
str_lt(a, b) ==
    IF b = <<>> THEN FALSE
    ELSE IF a = <<>> THEN TRUE
    ELSE IF Head(a) = Head(b) THEN str_lt(Tail(a), Tail(b))
    ELSE ord(Head(a)) < ord(Head(b))

\* sorted(list(s)) of a set of str.
RECURSIVE sorted_strs(_)
sorted_strs(s) ==
    IF s = {} THEN <<>>
    ELSE LET m == CHOOSE x \in s : \A y \in s \ {x} : str_lt(x, y)
         IN <<m>> \o sorted_strs(s \ {m})

\* set(l) of a list.
list_set(l) == {l[i] : i \in 1..Len(l)}

t_presente ==
    <<"p","r","e","s","e","n","t","e">>
t_imperfetto ==
    <<"i","m","p","e","r","f","e","t","t","o">>
t_futuro ==
    <<"f","u","t","u","r","o">>
t_passato_remoto ==
    <<"p","a","s","s","a","t","o","_","r","e","m","o","t","o">>
t_passato_prossimo ==
    <<"p","a","s","s","a","t","o","_","p","r","o","s","s","i","m","o">>
t_trapassato_prossimo ==
    <<"t","r","a","p","a","s","s","a","t","o","_","p","r","o","s","s","i","m","o">>
t_trapassato_remoto ==
    <<"t","r","a","p","a","s","s","a","t","o","_","r","e","m","o","t","o">>
t_futuro_anteriore ==
    <<"f","u","t","u","r","o","_","a","n","t","e","r","i","o","r","e">>

AVAILABLE_TENSES ==
    <<t_presente, t_imperfetto, t_futuro, t_passato_remoto,
      t_passato_prossimo, t_trapassato_prossimo, t_trapassato_remoto,
      t_futuro_anteriore>>

\* The index of the first entry of data["verbs"] whose infinitive is the
\* verb, 0 when there is none.
find_verb(entries, verb) ==
    IF \E i \in 1..Len(entries) : entries[i]["infinitive"] = verb
    THEN CHOOSE i \in 1..Len(entries) :
             /\ entries[i]["infinitive"] = verb
             /\ \A j \in 1..(i - 1) : entries[j]["infinitive"] # verb
    ELSE 0

\* entry["irregular_tenses"] = value, the key created when missing.
set_irregular_tenses(entry, value) ==
    [k \in DOMAIN entry \cup {"irregular_tenses"} |->
        IF k = "irregular_tenses" THEN value ELSE entry[k]]

\* mark_tenses_irregular that adds an entry for a verb it does not find.
mark_tenses_irregular_create(db, verb, tenses, remove) ==
    IF "verbs" \notin DOMAIN db
    THEN [data |-> db, ret |-> FALSE, saved |-> FALSE]
    ELSE LET entries == db["verbs"]
             i == find_verb(entries, verb)
         IN IF i = 0
            THEN [data |-> [db EXCEPT !["verbs"] =
                               Append(@, [infinitive |-> verb,
                                          group |-> "OTHER",
                                          irregular_tenses |->
                                              sorted_strs(list_set(tenses))])],
                  ret |-> TRUE, saved |-> TRUE]
            ELSE LET current == list_set(dict_get(entries[i],
                                                  "irregular_tenses", <<>>))
                     updated == IF remove THEN current \ list_set(tenses)
                                ELSE current \cup list_set(tenses)
                 IN [data |-> [db EXCEPT !["verbs"][i] =
                                  set_irregular_tenses(@, sorted_strs(updated))],
                     ret |-> TRUE, saved |-> TRUE]

\* mark_tenses_irregular that forgets the tenses the entry had when it adds.
mark_tenses_irregular_replace(db, verb, tenses, remove) ==
    IF "verbs" \notin DOMAIN db
    THEN [data |-> db, ret |-> FALSE, saved |-> FALSE]
    ELSE LET entries == db["verbs"]
             i == find_verb(entries, verb)
         IN IF i = 0
            THEN [data |-> db, ret |-> FALSE, saved |-> FALSE]
            ELSE LET current == list_set(dict_get(entries[i],
                                                  "irregular_tenses", <<>>))
                     updated == IF remove THEN current \ list_set(tenses)
                                ELSE list_set(tenses)
                 IN [data |-> [db EXCEPT !["verbs"][i] =
                                  set_irregular_tenses(@, sorted_strs(updated))],
                     ret |-> TRUE, saved |-> TRUE]

\* mark_tenses_irregular on the loaded database db: the data it leaves in
\* verbs.json, the value it returns and whether it called save_database.
\* mark_tenses_irregular that keeps the stored list as a list: it appends
\* the tenses to add and drops the tenses to remove, without sorting.
mark_tenses_irregular_unsorted(db, verb, tenses, remove) ==
    IF "verbs" \notin DOMAIN db
    THEN [data |-> db, ret |-> FALSE, saved |-> FALSE]
    ELSE LET entries == db["verbs"]
             i == find_verb(entries, verb)
         IN IF i = 0
            THEN [data |-> db, ret |-> FALSE, saved |-> FALSE]
            ELSE LET current == dict_get(entries[i], "irregular_tenses", <<>>)
                     updated ==
                         IF remove
                         THEN SelectSeq(current,
                                        LAMBDA t : t \notin list_set(tenses))
                         ELSE current \o tenses
                 IN [data |-> [db EXCEPT !["verbs"][i] =
                                  set_irregular_tenses(@, updated)],
                     ret |-> TRUE, saved |-> TRUE]

mark_tenses_irregular(db, verb, tenses, remove) ==
    IF "verbs" \notin DOMAIN db
    THEN [data |-> db, ret |-> FALSE, saved |-> FALSE]
    ELSE LET entries == db["verbs"]
             i == find_verb(entries, verb)
         IN IF i = 0
            THEN [data |-> db, ret |-> FALSE, saved |-> FALSE]
            ELSE LET current == list_set(dict_get(entries[i],
                                                  "irregular_tenses", <<>>))
                     updated == IF remove THEN current \ list_set(tenses)
                                ELSE current \cup list_set(tenses)
                 IN [data |-> [db EXCEPT !["verbs"][i] =
                                  set_irregular_tenses(@, sorted_strs(updated))],
                     ret |-> TRUE, saved |-> TRUE]

MaxTenseArgs == 2    \* longest enumerated list of tenses

essere == <<"e","s","s","e","r","e">>

\* Databases verbs.json can hold: the old format, and the new format with
\* an unsorted list, a repeated tense, an entry without irregular_tenses (as
\* migrate_verb_database writes it), two entries of one verb, and no entry.
MarkDatabases ==
    { ("ARE" :> <<andare, parlare>>) @@ ("ERE" :> <<credere>>)
          @@ ("IRE" :> <<dormire>>) @@ ("ONREGELMATIG" :> <<andare>>),
      ("verbs" :>
          << [infinitive |-> andare, group |-> "ARE",
              irregular_tenses |-> <<t_presente, t_futuro>>],
             [infinitive |-> parlare, group |-> "ARE",
              irregular_tenses |-> <<>>] >>),
      ("verbs" :>
          << [infinitive |-> parlare, group |-> "ARE",
              tenses |-> [t \in {t_presente} |-> [irregular |-> FALSE]]],
             [infinitive |-> andare, group |-> "ARE",
              irregular_tenses |-> <<t_futuro, t_futuro>>] >>),
      ("verbs" :>
          << [infinitive |-> andare, group |-> "ARE",
              tenses |-> [t \in {t_presente} |-> [irregular |-> TRUE]]] >>),
      ("verbs" :>
          << [infinitive |-> andare, group |-> "ARE",
              irregular_tenses |-> <<>>],
             [infinitive |-> andare, group |-> "ARE",
              irregular_tenses |-> <<t_presente>>] >>),
      ("verbs" :> <<>>) }

TensePool == {t_presente, t_futuro}

TenseLists ==
    UNION {[1..n -> TensePool] : n \in 0..MaxTenseArgs} \cup {AVAILABLE_TENSES}

InitMark ==
    /\ Blank
    /\ conj = <<>>
    /\ infinitive = <<>>
    /\ root = <<>>
    /\ group = <<>>
    /\ actual_conjugations = <<>>
    /\ data = <<>>
    /\ conjugations = <<>>
    /\ verbs_json \in MarkDatabases
    /\ out_file = <<>>
    /\ verb_database = <<>>
    /\ call = <<>>
    /\ ret = FALSE
    /\ saved = FALSE

MarkTensesIrregular(verb, tenses, remove) ==
    LET r == mark_tenses_irregular(verbs_json, verb, tenses, remove) IN
    /\ verbs_json' = r.data
    /\ ret' = r.ret
    /\ saved' = r.saved
    /\ call' = [verb |-> verb, tenses |-> tenses, remove |-> remove]
    /\ pc' = "mark_tenses_irregular"
    /\ UNCHANGED analyzer_vars
    /\ UNCHANGED <<data, conjugations, out_file, verb_database>>

NextMark ==
    \E verb \in {andare, essere}, tenses \in TenseLists,
       remove \in BOOLEAN :
        MarkTensesIrregular(verb, tenses, remove)

SpecMark == InitMark /\ [][NextMark]_vars

\* The positions of the entries of a new-format database that hold the verb.
EntriesOf(db, verb) ==
    IF "verbs" \in DOMAIN db
    THEN {i \in 1..Len(db["verbs"]) : db["verbs"][i]["infinitive"] = verb}
    ELSE {}

\* The tenses an entry lists as irregular.
IrregularSet(entry) ==
    IF "irregular_tenses" \in DOMAIN entry
    THEN {entry["irregular_tenses"][j] :
             j \in 1..Len(entry["irregular_tenses"])}
    ELSE {}

\* A step that calls mark_tenses_irregular on a verb of a new-format
\* database: the verb's (first) entry gains or loses the listed tenses,
\* keeps the membership of every other tense, every other entry is as
\* before, the file is written and True returned.
MarkFoundStep ==
    (pc' = "mark_tenses_irregular" /\ EntriesOf(verbs_json, call'.verb) # {}) =>
        LET i == CHOOSE i \in EntriesOf(verbs_json, call'.verb) :
                     \A j \in EntriesOf(verbs_json, call'.verb) : i <= j
            before == IrregularSet(verbs_json["verbs"][i])
            after == IrregularSet(verbs_json'["verbs"][i])
            listed == {call'.tenses[j] : j \in 1..Len(call'.tenses)}
        IN /\ ret' = TRUE
           /\ saved' = TRUE
           /\ "irregular_tenses" \in DOMAIN verbs_json'["verbs"][i]
           /\ call'.remove => after \cap listed = {}
           /\ ~call'.remove => listed \subseteq after
           /\ after \ listed = before \ listed
           /\ DOMAIN verbs_json' = DOMAIN verbs_json
           /\ Len(verbs_json'["verbs"]) = Len(verbs_json["verbs"])
           /\ \A j \in 1..Len(verbs_json["verbs"]) :
                 /\ j # i => verbs_json'["verbs"][j] = verbs_json["verbs"][j]
                 /\ \A k \in DOMAIN verbs_json["verbs"][j] \ {"irregular_tenses"} :
                       /\ k \in DOMAIN verbs_json'["verbs"][j]
                       /\ verbs_json'["verbs"][j][k] = verbs_json["verbs"][j][k]

\* C15: when the verb exists in a new-format database, a call with
\* remove=False leaves every listed tense in the verb's irregular_tenses and
\* a call with remove=True leaves none of them in it; every tense not
\* listed keeps its membership, the database is saved and True returned.
C15_MarkFound == [][MarkFoundStep]_vars

C15_Witness ==
    /\ pc = "mark_tenses_irregular"
    /\ call = [verb |-> andare, tenses |-> <<t_presente>>, remove |-> TRUE]
    /\ ret = TRUE
    /\ saved = TRUE
    /\ verbs_json["verbs"][1]["irregular_tenses"] = <<t_futuro>>

\* A step that calls mark_tenses_irregular on an old-format database or on
\* a verb without entry returns False, writes nothing and leaves the file.
MarkMissingStep ==
    (pc' = "mark_tenses_irregular"
         /\ ("verbs" \notin DOMAIN verbs_json
                \/ \A i \in 1..Len(verbs_json["verbs"]) :
                       verbs_json["verbs"][i]["infinitive"] # call'.verb)) =>
        /\ ret' = FALSE
        /\ saved' = FALSE
        /\ verbs_json' = verbs_json

\* C16: mark_tenses_irregular returns False and never writes the database
\* file when the database has no "verbs" key or no entry's infinitive is the
\* verb; the stored database is what it was before the call.
C16_MarkMissing == [][MarkMissingStep]_vars

C16_Witness ==
    /\ pc = "mark_tenses_irregular"
    /\ call.verb = essere
    /\ call.tenses = AVAILABLE_TENSES
    /\ "verbs" \in DOMAIN verbs_json
    /\ Len(verbs_json["verbs"]) = 2
    /\ ret = FALSE
    /\ saved = FALSE

(***************************************************************************)
(* mark_irregular.py: the command line (SpecCli)                           *)
(***************************************************************************)

flag_info       == <<"-","-","i","n","f","o">>
flag_all_tenses == <<"-","-","a","l","l","-","t","e","n","s","e","s">>
flag_remove     == <<"-","-","r","e","m","o","v","e">>

\* sys.argv[k:] of the list argv (sys.argv[k] is element k + 1).
argv_from(argv, k) == SubSeq(argv, k + 1, Len(argv))

\* [t for t in tenses if t not in AVAILABLE_TENSES]
invalid_tenses(tenses) ==
    SelectSeq(tenses, LAMBDA t : t \notin list_set(AVAILABLE_TENSES))

\* What a run of main does.
Exit1 == [outcome |-> "exit 1", info |-> FALSE, marked |-> <<>>]

ShowInfo == [outcome |-> "return", info |-> TRUE, marked |-> <<>>]

Marks(verb, tenses, remove) ==
    [outcome |-> "return", info |-> FALSE,
     marked |-> <<[verb |-> verb, tenses |-> tenses, remove |-> remove]>>]

\* main that marks regular without validating the tenses.
main_unchecked_remove(argv) ==
    IF Len(argv) < 2 THEN Exit1
    ELSE LET verb == argv[2] IN
         IF Len(argv) > 2 /\ argv[3] = flag_info THEN ShowInfo
         ELSE IF Len(argv) > 2 /\ argv[3] = flag_all_tenses
              THEN Marks(verb, AVAILABLE_TENSES, FALSE)
         ELSE IF Len(argv) > 2 /\ argv[3] = flag_remove
              THEN IF Len(argv) < 4 THEN Exit1
                   ELSE Marks(verb, argv_from(argv, 3), TRUE)
         ELSE IF invalid_tenses(argv_from(argv, 2)) # <<>> THEN Exit1
              ELSE IF argv_from(argv, 2) = <<>> THEN Exit1
              ELSE Marks(verb, argv_from(argv, 2), FALSE)

\* main on sys.argv = argv: how it ends, whether it shows the verb, and the
\* call of mark_tenses_irregular it makes, if any.
main(argv) ==
    IF Len(argv) < 2 THEN Exit1
    ELSE LET verb == argv[2] IN
         IF Len(argv) > 2 /\ argv[3] = flag_info THEN ShowInfo
         ELSE IF Len(argv) > 2 /\ argv[3] = flag_all_tenses
              THEN Marks(verb, AVAILABLE_TENSES, FALSE)
         ELSE IF Len(argv) > 2 /\ argv[3] = flag_remove
              THEN IF Len(argv) < 4 THEN Exit1
                   ELSE IF invalid_tenses(argv_from(argv, 3)) # <<>> THEN Exit1
                   ELSE Marks(verb, argv_from(argv, 3), TRUE)
         ELSE IF invalid_tenses(argv_from(argv, 2)) # <<>> THEN Exit1
              ELSE IF argv_from(argv, 2) = <<>> THEN Exit1
              ELSE Marks(verb, argv_from(argv, 2), FALSE)

MaxArgs == 2    \* most arguments after the verb

prog == <<"m">>

ArgTokens == {t_presente, t_futuro, <<"x">>, flag_info, flag_all_tenses,
              flag_remove}

Argvs ==
    {<<prog>>} \cup
    UNION {{<<prog, v>> \o rest : v \in {andare, essere}, rest \in [1..n -> ArgTokens]} :
              n \in 0..MaxArgs}

InitCli ==
    /\ Blank
    /\ conj = <<>>
    /\ infinitive = <<>>
    /\ root = <<>>
    /\ group = <<>>
    /\ actual_conjugations = <<>>
    /\ data = <<>>
    /\ conjugations = <<>>
    /\ verbs_json \in MarkDatabases
    /\ out_file = <<>>
    /\ verb_database = <<>>
    /\ call \in {[argv |-> a, marked |-> <<>>] : a \in Argvs}
    /\ ret = ""
    /\ saved = FALSE

\* One run of the script: main, with the call of mark_tenses_irregular it
\* makes.
Main ==
    /\ pc = "call"
    /\ LET m == main(call.argv) IN
       /\ call' = [call EXCEPT !.marked = m.marked]
       /\ ret' = m.outcome
       /\ IF m.marked = <<>>
          THEN UNCHANGED <<verbs_json, saved>>
          ELSE LET r == mark_tenses_irregular(verbs_json, m.marked[1].verb,
                                              m.marked[1].tenses,
                                              m.marked[1].remove)
               IN /\ verbs_json' = r.data
                  /\ saved' = r.saved
    /\ pc' = "main"
    /\ UNCHANGED analyzer_vars
    /\ UNCHANGED <<data, conjugations, out_file, verb_database>>

NextCli == Main

SpecCli == InitCli /\ [][NextCli]_vars

Flags == {flag_info, flag_all_tenses, flag_remove}

\* The arguments the command line takes as tenses: those after --remove,
\* or all those after the verb when the first of them is no flag.
TenseArguments(argv) ==
    IF Len(argv) > 2 /\ argv[3] = flag_remove THEN SubSeq(argv, 4, Len(argv))
    ELSE IF Len(argv) > 2 /\ argv[3] \in Flags THEN <<>>
    ELSE SubSeq(argv, 3, Len(argv))

\* The command lines that must not reach mark_tenses_irregular.
Rejected(argv) ==
    \/ Len(argv) < 2
    \/ Len(argv) > 2 /\ argv[3] = flag_info
    \/ \E k \in 1..Len(TenseArguments(argv)) :
          \A j \in 1..Len(AVAILABLE_TENSES) :
             TenseArguments(argv)[k] # AVAILABLE_TENSES[j]
    \/ (Len(argv) <= 2 \/ argv[3] # flag_all_tenses)
          /\ TenseArguments(argv) = <<>>

CliStep ==
    pc' = "main" =>
        /\ Rejected(call.argv) =>
              /\ call'.marked = <<>>
              /\ verbs_json' = verbs_json
              /\ saved' = FALSE
        /\ (Len(call.argv) > 2 /\ call.argv[3] = flag_all_tenses) =>
              /\ call'.marked = <<[verb |-> call.argv[2],
                                   tenses |-> AVAILABLE_TENSES,
                                   remove |-> FALSE]>>
              /\ EntriesOf(verbs_json, call.argv[2]) # {} =>
                    LET i == CHOOSE i \in EntriesOf(verbs_json, call.argv[2]) :
                                 \A j \in EntriesOf(verbs_json, call.argv[2]) :
                                     i <= j
                    IN IrregularSet(verbs_json'["verbs"][i]) =
                           IrregularSet(verbs_json["verbs"][i])
                               \cup {AVAILABLE_TENSES[j] : j \in 1..8}

\* C17: the command line never modifies the database when a tense argument
\* (for marking or for --remove) is not one of the 8 AVAILABLE_TENSES, when
\* no tense is given, when --remove has no tenses, or when --info is used:
\* it ends before mark_tenses_irregular is called; --all-tenses marks
\* exactly the 8 AVAILABLE_TENSES as irregular for the verb.
C17_CommandLine == [][CliStep]_vars

C17_Witness ==
    /\ pc = "main"
    /\ call.argv = <<prog, andare, flag_remove, <<"x">> >>
    /\ call.marked = <<>>
    /\ ret = "exit 1"
    /\ "verbs" \in DOMAIN verbs_json
    /\ Len(verbs_json["verbs"]) = 2
    /\ "irregular_tenses" \in DOMAIN verbs_json["verbs"][1]
    /\ verbs_json["verbs"][1]["irregular_tenses"] = <<t_presente, t_futuro>>

(***************************************************************************)
(* migrate_verb_structure.py (SpecMigrate)                                 *)
(***************************************************************************)

TENSES == AVAILABLE_TENSES

determine_verb_group(verb) ==
    IF str_endswith(verb, <<"a","r","e">>) THEN "ARE"
    ELSE IF str_endswith(verb, <<"e","r","e">>) THEN "ERE"
    ELSE IF str_endswith(verb, <<"i","r","e">>) THEN "IRE"
    ELSE "OTHER"

\* The entry migrate_verb_database writes: a flag for each of the TENSES.
full_entry(verb, verb_group, irregular) ==
    [infinitive |-> verb, group |-> verb_group,
     tenses |-> [t \in list_set(TENSES) |-> [irregular |-> irregular]]]

\* The entry create_simplified_structure writes: the list of irregular
\* tenses.
simplified_entry(verb, verb_group, irregular) ==
    [infinitive |-> verb, group |-> verb_group,
     irregular_tenses |-> IF irregular THEN TENSES ELSE <<>>]

\* The entry of the shape asked for: "full" or "simplified".
verb_entry(shape, verb, verb_group, irregular) ==
    IF shape = "full" THEN full_entry(verb, verb_group, irregular)
    ELSE simplified_entry(verb, verb_group, irregular)

\* The entries of one of the lists ARE, ERE, IRE, none when the old database
\* has no such list.
group_entries(old_db, verb_group, shape) ==
    IF verb_group \notin DOMAIN old_db THEN <<>>
    ELSE [k \in 1..Len(old_db[verb_group]) |->
             verb_entry(shape, old_db[verb_group][k], verb_group,
                   old_db[verb_group][k]
                       \in list_set(dict_get(old_db, "ONREGELMATIG", <<>>)))]

\* The entries of the ONREGELMATIG verbs that no list ARE, ERE, IRE gave.
irregular_only_entries(old_db, processed, shape) ==
    IF "ONREGELMATIG" \notin DOMAIN old_db THEN <<>>
    ELSE LET rest == SelectSeq(old_db["ONREGELMATIG"],
                               LAMBDA v : \A i \in 1..Len(processed) :
                                              processed[i]["infinitive"] # v)
         IN [k \in 1..Len(rest) |->
                verb_entry(shape, rest[k], determine_verb_group(rest[k]), TRUE)]

\* entries with e put behind the last entry whose infinitive is not greater.
RECURSIVE insert_by_infinitive(_, _)
insert_by_infinitive(entries, e) ==
    IF entries = <<>> THEN <<e>>
    ELSE IF str_lt(e["infinitive"], entries[Len(entries)]["infinitive"])
         THEN Append(insert_by_infinitive(SubSeq(entries, 1, Len(entries) - 1), e),
                     entries[Len(entries)])
         ELSE Append(entries, e)

\* The list left as it was built.
sort_by_infinitive_unsorted(entries) == entries

\* list.sort(key=lambda x: x["infinitive"]): ascending, stable.
RECURSIVE sort_by_infinitive(_)
sort_by_infinitive(entries) ==
    IF entries = <<>> THEN <<>>
    ELSE insert_by_infinitive(
             sort_by_infinitive(SubSeq(entries, 1, Len(entries) - 1)),
             entries[Len(entries)])

\* The database both migrations build, up to the shape of an entry.
new_database(old_db, shape) ==
    LET processed == group_entries(old_db, "ARE", shape)
                         \o group_entries(old_db, "ERE", shape)
                         \o group_entries(old_db, "IRE", shape)
    IN "verbs" :> sort_by_infinitive(
                      processed \o irregular_only_entries(old_db, processed, shape))

migrate_verb_database(old_db) == new_database(old_db, "full")

create_simplified_structure(old_db) == new_database(old_db, "simplified")

MaxListLen == 2    \* longest ARE and ONREGELMATIG list of an old database

ListsUpTo(pool, n) == UNION {[1..k -> pool] : k \in 0..n}

\* Old databases: each list present or not, verbs out of order, repeated,
\* under a list that is not their suffix's, irregular with and without a
\* list of their own.
OldDatabases(n) ==
    {[k \in present |-> lists[k]] :
        present \in SUBSET {"ARE", "ERE", "IRE", "ONREGELMATIG"},
        lists \in [ARE : ListsUpTo({andare, parlare, essere}, n),
                   ERE : {<<essere, credere>>},
                   IRE : {<<dormire>>},
                   ONREGELMATIG : ListsUpTo({andare, essere, porre, dormire}, n)]}

InitMigrate ==
    /\ Blank
    /\ conj = <<>>
    /\ infinitive = <<>>
    /\ root = <<>>
    /\ group = <<>>
    /\ actual_conjugations = <<>>
    /\ data = <<>>
    /\ conjugations = <<>>
    /\ verbs_json \in OldDatabases(MaxListLen)
    /\ out_file = <<>>
    /\ verb_database = <<>>
    /\ call = <<>>
    /\ ret = ""
    /\ saved = FALSE

MigrateVerbDatabase ==
    /\ pc = "call"
    /\ out_file' = migrate_verb_database(verbs_json)
    /\ saved' = TRUE
    /\ pc' = "migrate_verb_database"
    /\ UNCHANGED analyzer_vars
    /\ UNCHANGED <<data, conjugations, verbs_json, verb_database, call, ret>>

CreateSimplifiedStructure ==
    /\ pc = "call"
    /\ out_file' = create_simplified_structure(verbs_json)
    /\ saved' = TRUE
    /\ pc' = "create_simplified_structure"
    /\ UNCHANGED analyzer_vars
    /\ UNCHANGED <<data, conjugations, verbs_json, verb_database, call, ret>>

NextMigrate == MigrateVerbDatabase \/ CreateSimplifiedStructure

SpecMigrate == InitMigrate /\ [][NextMigrate]_vars

Migrated == pc \in {"migrate_verb_database", "create_simplified_structure"}

\* The verbs of a list of the old database, none when the list is missing.
OldVerbs(old_db, name) ==
    IF name \in DOMAIN old_db
    THEN {old_db[name][k] : k \in 1..Len(old_db[name])}
    ELSE {}

\* The tenses an entry of either shape holds as irregular.
IrregularTensesOf(entry) ==
    IF "tenses" \in DOMAIN entry
    THEN {t \in DOMAIN entry["tenses"] : entry["tenses"][t]["irregular"]}
    ELSE IrregularSet(entry)

EightTenses ==
    {t_presente, t_imperfetto, t_futuro, t_passato_remoto, t_passato_prossimo,
     t_trapassato_prossimo, t_trapassato_remoto, t_futuro_anteriore}

\* The group a suffix stands for.
SuffixGroup(verb) ==
    LET suffix == IF Len(verb) >= 3 THEN SubSeq(verb, Len(verb) - 2, Len(verb))
                  ELSE <<>>
    IN IF suffix = <<"a","r","e">> THEN "ARE"
       ELSE IF suffix = <<"e","r","e">> THEN "ERE"
       ELSE IF suffix = <<"i","r","e">> THEN "IRE"
       ELSE "OTHER"

\* What the claim asks of the entry of a verb v taken from the old database.
EntryAsClaimed(old_db, entry) ==
    LET v == entry["infinitive"] IN
    \/ /\ entry["group"] \in {"ARE", "ERE", "IRE"}
       /\ v \in OldVerbs(old_db, entry["group"])
       /\ IrregularTensesOf(entry) =
              IF v \in OldVerbs(old_db, "ONREGELMATIG") THEN EightTenses ELSE {}
    \/ /\ v \in OldVerbs(old_db, "ONREGELMATIG")
       /\ \A g \in {"ARE", "ERE", "IRE"} : v \notin OldVerbs(old_db, g)
       /\ entry["group"] = SuffixGroup(v)
       /\ IrregularTensesOf(entry) = EightTenses

\* C18: both migrations put every verb of the old ARE, ERE, IRE and
\* ONREGELMATIG lists into the new 'verbs' list, sorted ascending by
\* infinitive; a verb of a list ARE/ERE/IRE gets that list's name as group
\* and all 8 tenses irregular if it is in ONREGELMATIG too, none otherwise;
\* a verb only in ONREGELMATIG gets the group of its suffix and all 8 tenses
\* irregular; the list holds no other entry.
C18_Migration ==
    Migrated =>
        LET new == out_file["verbs"] IN
        /\ \A i \in 1..(Len(new) - 1) :
              ~ str_lt(new[i + 1]["infinitive"], new[i]["infinitive"])
        /\ \A i \in 1..Len(new) : EntryAsClaimed(verbs_json, new[i])
        /\ \A g \in {"ARE", "ERE", "IRE"} : \A v \in OldVerbs(verbs_json, g) :
              \E i \in 1..Len(new) :
                 new[i]["infinitive"] = v /\ new[i]["group"] = g
        /\ \A v \in OldVerbs(verbs_json, "ONREGELMATIG") :
              \E i \in 1..Len(new) : new[i]["infinitive"] = v

C18_Witness ==
    /\ pc = "create_simplified_structure"
    /\ DOMAIN verbs_json = {"ARE", "ERE", "ONREGELMATIG"}
    /\ verbs_json["ARE"] = <<parlare, andare>>
    /\ verbs_json["ONREGELMATIG"] = <<porre, andare>>
    /\ Len(out_file["verbs"]) = 5
    /\ out_file["verbs"][1] = [infinitive |-> andare, group |-> "ARE",
                               irregular_tenses |-> TENSES]
    /\ out_file["verbs"][5]["group"] = "OTHER"

(***************************************************************************)
(* main_updated.py: the verb database of the quiz (SpecQuery)              *)
(***************************************************************************)

\* The verbs.json of the quiz: whether the file exists, whether open and
\* json.load succeed, and the JSON value loaded: a dict, a list of str, or
\* a number.
JsonDict(d) == [type |-> "dict", dict |-> d, list |-> <<>>]

JsonList(l) == [type |-> "list", dict |-> <<>>, list |-> l]

JsonNumber == [type |-> "number", dict |-> <<>>, list |-> <<>>]

MissingFile == [exists |-> FALSE, parses |-> FALSE, json |-> JsonNumber]

InvalidFile == [exists |-> TRUE, parses |-> FALSE, json |-> JsonNumber]

JsonFile(json) == [exists |-> TRUE, parses |-> TRUE, json |-> json]

\* The lists used when verbs.json gives nothing.
default_data ==
    ("ARE" :> <<<<"p","a","r","l","a","r","e">>,
        <<"m","a","n","g","i","a","r","e">>,
        <<"a","m","a","r","e">>,
        <<"c","a","n","t","a","r","e">>,
        <<"l","a","v","o","r","a","r","e">>,
        <<"s","t","u","d","i","a","r","e">>,
        <<"g","i","o","c","a","r","e">>,
        <<"c","a","m","m","i","n","a","r","e">>>>)
    @@ ("ERE" :> <<<<"c","r","e","d","e","r","e">>,
        <<"v","e","d","e","r","e">>,
        <<"t","e","m","e","r","e">>,
        <<"l","e","g","g","e","r","e">>,
        <<"s","c","r","i","v","e","r","e">>,
        <<"v","i","v","e","r","e">>,
        <<"m","e","t","t","e","r","e">>,
        <<"p","r","e","n","d","e","r","e">>>>)
    @@ ("IRE" :> <<<<"d","o","r","m","i","r","e">>,
        <<"p","a","r","t","i","r","e">>,
        <<"s","e","n","t","i","r","e">>,
        <<"c","a","p","i","r","e">>,
        <<"f","i","n","i","r","e">>,
        <<"p","r","e","f","e","r","i","r","e">>,
        <<"p","u","l","i","r","e">>,
        <<"a","p","r","i","r","e">>>>)
    @@ ("ONREGELMATIG" :> <<<<"e","s","s","e","r","e">>,
        <<"a","v","e","r","e">>,
        <<"a","n","d","a","r","e">>,
        <<"f","a","r","e">>,
        <<"v","e","n","i","r","e">>,
        <<"d","i","r","e">>,
        <<"p","o","t","e","r","e">>,
        <<"v","o","l","e","r","e">>,
        <<"d","o","v","e","r","e">>,
        <<"s","a","p","e","r","e">>,
        <<"s","t","a","r","e">>,
        <<"u","s","c","i","r","e">>>>)

\* verb_index is <<>> for None and <<index>> for a dict.
\* A fallback that returns no verbs at all.
default_verb_database_empty ==
    [format |-> "old", data |-> <<>>, verb_index |-> <<>>]

default_verb_database ==
    [format |-> "old", data |-> default_data, verb_index |-> <<>>]

\* {v["infinitive"]: v for v in data["verbs"]}: the last entry of an
\* infinitive stays.
build_verb_index(entries) ==
    [v \in {entries[i]["infinitive"] : i \in 1..Len(entries)} |->
        entries[CHOOSE i \in 1..Len(entries) :
                   /\ entries[i]["infinitive"] = v
                   /\ \A j \in (i + 1)..Len(entries) : entries[j]["infinitive"] # v]]

\* Whether the try block raises on the loaded JSON: 'in' on a number, the
\* subscript 'verbs' on a list, the subscript 'infinitive' on an entry
\* without it.
load_raises(json) ==
    \/ json.type = "number"
    \/ json.type = "list" /\ "verbs" \in list_set(json.list)
    \/ /\ json.type = "dict"
       /\ "verbs" \in DOMAIN json.dict
       /\ \E i \in 1..Len(json.dict["verbs"]) :
             "infinitive" \notin DOMAIN json.dict["verbs"][i]

load_verb_database(file) ==
    IF ~ file.exists \/ ~ file.parses \/ load_raises(file.json)
    THEN default_verb_database
    ELSE IF file.json.type = "dict" /\ "verbs" \in DOMAIN file.json.dict
    THEN [format |-> "new", data |-> file.json.dict,
          verb_index |-> <<build_verb_index(file.json.dict["verbs"])>>]
    ELSE [format |-> "old",
          data |-> IF file.json.type = "dict" THEN file.json.dict
                   ELSE file.json.list,
          verb_index |-> <<>>]

\* The optional argument tense: <<>> when it is left out (None), <<t>> when
\* it is the str t.  A tense that is None or '' is false in a condition.
NoTense == <<>>

tense_true(tense) == tense # NoTense /\ tense[1] # <<>>

\* The infinitives of the entries kept, in their order.
infinitives_of(kept) == [i \in 1..Len(kept) |-> kept[i]["infinitive"]]

\* get_verbs_by_group_and_tense that, given a tense, still returns under
\* IRREGULAR every verb with some irregular tense.
get_verbs_by_group_and_tense_any_tense(db, verb_group, tense) ==
    IF db["format"] = "old"
    THEN IF verb_group = "REGULAR"
         THEN dict_get(db["data"], "ARE", <<>>) \o dict_get(db["data"], "ERE", <<>>)
                  \o dict_get(db["data"], "IRE", <<>>)
         ELSE IF verb_group \in {"IRREGULAR", "ONREGELMATIG"}
              THEN dict_get(db["data"], "ONREGELMATIG", <<>>)
         ELSE dict_get(db["data"], verb_group, <<>>)
    ELSE IF verb_group = "REGULAR"
         THEN IF tense_true(tense)
              THEN infinitives_of(SelectSeq(db["data"]["verbs"],
                       LAMBDA e : tense[1] \notin list_set(dict_get(e, "irregular_tenses", <<>>))))
              ELSE infinitives_of(SelectSeq(db["data"]["verbs"],
                       LAMBDA e : dict_get(e, "irregular_tenses", <<>>) = <<>>))
         ELSE IF verb_group \in {"IRREGULAR", "ONREGELMATIG"}
              THEN infinitives_of(SelectSeq(db["data"]["verbs"],
                       LAMBDA e : dict_get(e, "irregular_tenses", <<>>) # <<>>))
         ELSE infinitives_of(SelectSeq(db["data"]["verbs"],
                  LAMBDA e : e["group"] = verb_group))

get_verbs_by_group_and_tense(db, verb_group, tense) ==
    IF db["format"] = "old"
    THEN IF verb_group = "REGULAR"
         THEN dict_get(db["data"], "ARE", <<>>) \o dict_get(db["data"], "ERE", <<>>)
                  \o dict_get(db["data"], "IRE", <<>>)
         ELSE IF verb_group \in {"IRREGULAR", "ONREGELMATIG"}
              THEN dict_get(db["data"], "ONREGELMATIG", <<>>)
         ELSE dict_get(db["data"], verb_group, <<>>)
    ELSE IF verb_group = "REGULAR"
         THEN IF tense_true(tense)
              THEN infinitives_of(SelectSeq(db["data"]["verbs"],
                       LAMBDA e : tense[1] \notin list_set(dict_get(e, "irregular_tenses", <<>>))))
              ELSE infinitives_of(SelectSeq(db["data"]["verbs"],
                       LAMBDA e : dict_get(e, "irregular_tenses", <<>>) = <<>>))
         ELSE IF verb_group \in {"IRREGULAR", "ONREGELMATIG"}
              THEN IF tense_true(tense)
                   THEN infinitives_of(SelectSeq(db["data"]["verbs"],
                            LAMBDA e : tense[1] \in list_set(dict_get(e, "irregular_tenses", <<>>))))
                   ELSE infinitives_of(SelectSeq(db["data"]["verbs"],
                            LAMBDA e : dict_get(e, "irregular_tenses", <<>>) # <<>>))
         ELSE infinitives_of(SelectSeq(db["data"]["verbs"],
                  LAMBDA e : e["group"] = verb_group))

MaxVerbs == 2    \* most entries of a new-format database

\* The entries a verb can have after a migration and calls of
\* mark_tenses_irregular: a sorted list of irregular tenses, or a flag for
\* each tense.
EntriesFor(v) ==
    {[infinitive |-> v, group |-> determine_verb_group(v), irregular_tenses |-> l] :
        l \in {<<>>, <<t_presente>>, <<t_futuro>>, <<t_futuro, t_presente>>}}
    \cup {full_entry(v, determine_verb_group(v), TRUE)}

\* New-format databases of up to n entries, no infinitive twice.
NewDatabases(n) ==
    {"verbs" :> l :
        l \in UNION {{m \in [1..k -> UNION {EntriesFor(v) : v \in {andare, parlare, porre}}] :
                         \A i, j \in 1..k :
                            i # j => m[i]["infinitive"] # m[j]["infinitive"]} :
                     k \in 0..n}}

QueryGroups ==
    {"REGULAR", "IRREGULAR", "ONREGELMATIG", "ARE", "ERE", "IRE", "OTHER", "X"}

QueryTenses == {NoTense, <<<<>>>>, <<t_presente>>, <<t_futuro>>, <<t_imperfetto>>}

InitQuery ==
    /\ Blank
    /\ conj = <<>>
    /\ infinitive = <<>>
    /\ root = <<>>
    /\ group = <<>>
    /\ actual_conjugations = <<>>
    /\ data = <<>>
    /\ conjugations = <<>>
    /\ verbs_json \in NewDatabases(MaxVerbs)
                          \cup {("ARE" :> <<andare, parlare>>)
                                    @@ ("ONREGELMATIG" :> <<andare, porre>>)}
    /\ out_file = <<>>
    /\ verb_database = load_verb_database(JsonFile(JsonDict(verbs_json)))
    /\ call = <<>>
    /\ ret = <<>>
    /\ saved = FALSE

GetVerbsByGroupAndTense(verb_group, tense) ==
    /\ call' = [group |-> verb_group, tense |-> tense]
    /\ ret' = get_verbs_by_group_and_tense(verb_database, verb_group, tense)
    /\ pc' = "get_verbs_by_group_and_tense"
    /\ UNCHANGED analyzer_vars
    /\ UNCHANGED <<data, conjugations, verbs_json, out_file, verb_database, saved>>

NextQuery ==
    \E verb_group \in QueryGroups, tense \in QueryTenses :
        GetVerbsByGroupAndTense(verb_group, tense)

SpecQuery == InitQuery /\ [][NextQuery]_vars

Queried ==
    pc = "get_verbs_by_group_and_tense" /\ verb_database["format"] = "new"

\* The irregular_tenses of an entry that has them.
ListedIrregular(entry) ==
    IF "irregular_tenses" \in DOMAIN entry
    THEN {entry["irregular_tenses"][j] : j \in 1..Len(entry["irregular_tenses"])}
    ELSE {}

\* The entries the claim selects for a group and a tense.
Selected(entry, verb_group, tense) ==
    IF verb_group = "REGULAR"
    THEN IF tense = NoTense THEN ListedIrregular(entry) = {}
         ELSE tense[1] \notin ListedIrregular(entry)
    ELSE IF verb_group \in {"IRREGULAR", "ONREGELMATIG"}
    THEN IF tense = NoTense THEN ListedIrregular(entry) # {}
         ELSE tense[1] \in ListedIrregular(entry)
    ELSE entry["group"] = verb_group

\* The infinitives of the selected entries, in database order.
RECURSIVE SelectedInfinitives(_, _, _)
SelectedInfinitives(entries, verb_group, tense) ==
    IF entries = <<>> THEN <<>>
    ELSE (IF Selected(Head(entries), verb_group, tense)
          THEN <<Head(entries)["infinitive"]>> ELSE <<>>)
             \o SelectedInfinitives(Tail(entries), verb_group, tense)

irregular_verbs ==
    {<<"e","s","s","e","r","e">>,
     <<"a","v","e","r","e">>,
     <<"a","n","d","a","r","e">>,
     <<"f","a","r","e">>,
     <<"v","e","n","i","r","e">>,
     <<"d","i","r","e">>,
     <<"p","o","t","e","r","e">>,
     <<"v","o","l","e","r","e">>,
     <<"d","o","v","e","r","e">>,
     <<"s","a","p","e","r","e">>,
     <<"s","t","a","r","e">>,
     <<"u","s","c","i","r","e">>,
     <<"d","a","r","e">>,
     <<"b","e","r","e">>}

\* classify_verb that looks at the suffix before the list of irregular verbs.
classify_verb_suffix_first(verb) ==
    LET v == str_strip(str_lower(verb)) IN
    IF str_endswith(v, <<"a","r","e">>) THEN "ARE"
    ELSE IF str_endswith(v, <<"e","r","e">>) THEN "ERE"
    ELSE IF str_endswith(v, <<"i","r","e">>) THEN "IRE"
    ELSE "ONREGELMATIG"

classify_verb(verb) ==
    LET v == str_strip(str_lower(verb)) IN
    IF v \in irregular_verbs THEN "ONREGELMATIG"
    ELSE IF str_endswith(v, <<"a","r","e">>) THEN "ARE"
    ELSE IF str_endswith(v, <<"e","r","e">>) THEN "ERE"
    ELSE IF str_endswith(v, <<"i","r","e">>) THEN "IRE"
    ELSE "ONREGELMATIG"

\* The values a raw JSON file holds, by what import_verbs tells apart:
\* a str, a dict with a 'verb' that is a str, a dict with a 'verb' that is a
\* list (not hashable) or a number (hashable, no str), anything else.
StrItem(v) == [kind |-> "str", value |-> v]

VerbItem(v) == [kind |-> "verb", value |-> v]

UnhashableVerbItem == [kind |-> "verb_list", value |-> <<>>]

NumberVerbItem == [kind |-> "verb_number", value |-> <<>>]

OtherItem == [kind |-> "other", value |-> <<>>]

\* all_verbs after the items of a list: verbs is its set of str, non_str
\* says a value that is no str got in.  An item that cannot be hashed raises,
\* and the rest of the file is not read.
RECURSIVE add_items(_, _)
add_items(items, all_verbs) ==
    IF items = <<>> THEN all_verbs
    ELSE IF Head(items).kind \in {"str", "verb"}
         THEN add_items(Tail(items),
                        [all_verbs EXCEPT !.verbs = @ \cup {Head(items).value}])
    ELSE IF Head(items).kind = "verb_number"
         THEN add_items(Tail(items), [all_verbs EXCEPT !.non_str = TRUE])
    ELSE IF Head(items).kind = "verb_list" THEN all_verbs
    ELSE add_items(Tail(items), all_verbs)

\* all_verbs after the values of a dict: only the str of the values that are
\* lists count.
RECURSIVE add_values(_, _)
add_values(values, all_verbs) ==
    IF values = <<>> THEN all_verbs
    ELSE add_values(Tail(values),
             IF Head(values).list
             THEN [all_verbs EXCEPT !.verbs = @ \cup
                      {Head(values).items[i].value :
                          i \in {j \in 1..Len(Head(values).items) :
                                    Head(values).items[j].kind = "str"}}]
             ELSE all_verbs)

\* all_verbs after one file; a file that does not parse adds nothing.
read_file(file, all_verbs) ==
    IF file.json = "list" THEN add_items(file.items, all_verbs)
    ELSE IF file.json = "dict" THEN add_values(file.values, all_verbs)
    ELSE all_verbs

RECURSIVE read_files(_, _)
read_files(files, all_verbs) ==
    IF files = <<>> THEN all_verbs
    ELSE read_files(Tail(files), read_file(Head(files), all_verbs))

\* import_verbs on the raw directory: whether verbs.json is written, and the
\* database written.  A value that is no str makes classify_verb raise
\* before anything is written.
import_verbs(raw) ==
    IF ~ raw.exists \/ raw.files = <<>>
    THEN [written |-> FALSE, raised |-> FALSE, database |-> <<>>]
    ELSE LET all_verbs == read_files(raw.files, [verbs |-> {}, non_str |-> FALSE])
         IN IF all_verbs.non_str
            THEN [written |-> FALSE, raised |-> TRUE, database |-> <<>>]
            ELSE [written |-> TRUE, raised |-> FALSE,
                  database |->
                      [g \in {"ARE", "ERE", "IRE", "ONREGELMATIG"} |->
                          sorted_strs({v \in all_verbs.verbs : classify_verb(v) = g})]]

MaxItems == 2    \* most items of the list file of the raw directory

Parlare == <<"P","a","r","l","a","r","e">>

essere_spaced == <<" ","E","s","s","e","r","e","u000A">>

ItemPool ==
    {StrItem(parlare), StrItem(PARLARE), StrItem(andare), StrItem(essere_spaced),
     StrItem(porre), VerbItem(dormire), UnhashableVerbItem, NumberVerbItem,
     OtherItem}

ListFile(items) == [json |-> "list", items |-> items]

DictFile ==
    [json |-> "dict",
     values |-> <<[list |-> TRUE,
                   items |-> <<StrItem(credere), OtherItem, StrItem(Parlare)>>],
                  [list |-> FALSE, items |-> <<>>]>>]

BrokenFile == [json |-> "invalid"]

\* Raw directories: missing, empty, and a list file of up to n items alone,
\* before a dict file, or after a file that does not parse.
RawDirs(n) ==
    {[exists |-> FALSE, files |-> <<>>], [exists |-> TRUE, files |-> <<>>]}
    \cup UNION {{[exists |-> TRUE, files |-> <<ListFile(items)>>],
                 [exists |-> TRUE, files |-> <<ListFile(items), DictFile>>],
                 [exists |-> TRUE, files |-> <<BrokenFile, ListFile(items)>>]} :
                   items \in UNION {[1..k -> ItemPool] : k \in 0..n}}

ClassifyInputs ==
    {parlare, PARLARE, andare, str_upper(andare), essere_spaced, credere,
     dormire, porre, <<>>, <<" ">> \o dormire}

InitImport ==
    /\ Blank
    /\ conj = <<>>
    /\ infinitive = <<>>
    /\ root = <<>>
    /\ group = <<>>
    /\ actual_conjugations = <<>>
    /\ data \in RawDirs(MaxItems)
    /\ conjugations = <<>>
    /\ verbs_json = <<>>
    /\ out_file = <<>>
    /\ verb_database = <<>>
    /\ call = <<>>
    /\ ret = ""
    /\ saved = FALSE

ClassifyVerb(verb) ==
    /\ pc = "call"
    /\ call' = verb
    /\ ret' = classify_verb(verb)
    /\ pc' = "classify_verb"
    /\ UNCHANGED analyzer_vars
    /\ UNCHANGED <<data, conjugations, verbs_json, out_file, verb_database, saved>>

ImportVerbs ==
    /\ pc = "call"
    /\ LET r == import_verbs(data) IN
       /\ saved' = r.written
       /\ out_file' = r.database
       /\ ret' = IF r.raised THEN "AttributeError" ELSE "None"
    /\ pc' = "import_verbs"
    /\ UNCHANGED analyzer_vars
    /\ UNCHANGED <<data, conjugations, verbs_json, verb_database, call>>

NextImport == (\E verb \in ClassifyInputs : ClassifyVerb(verb)) \/ ImportVerbs

SpecImport == InitImport /\ [][NextImport]_vars

FourLists == {"ARE", "ERE", "IRE", "ONREGELMATIG"}

\* The group the claim gives a verb of any case and surrounding whitespace.
ClaimedGroup(verb) ==
    LET v == str_strip(str_lower(verb)) IN
    IF v \in irregular_verbs \/ SuffixGroup(v) = "OTHER" THEN "ONREGELMATIG"
    ELSE SuffixGroup(v)

\* The str a file hands to all_verbs.
VerbsOfFile(file) ==
    IF file.json = "list"
    THEN {file.items[i].value :
             i \in {j \in 1..Len(file.items) :
                       /\ file.items[j].kind \in {"str", "verb"}
                       /\ \A k \in 1..(j - 1) : file.items[k].kind # "verb_list"}}
    ELSE IF file.json = "dict"
    THEN UNION {{file.values[i].items[j].value :
                    j \in {k \in 1..Len(file.values[i].items) :
                              file.values[i].items[k].kind = "str"}} :
                   i \in {m \in 1..Len(file.values) : file.values[m].list}}
    ELSE {}

VerbsRead(raw) == UNION {VerbsOfFile(raw.files[i]) : i \in 1..Len(raw.files)}

\* C20: classify_verb gives every verb exactly one of ARE, ERE, IRE,
\* ONREGELMATIG, whatever its case and surrounding whitespace: ONREGELMATIG
\* for a verb of the built-in irregular list, else the group of its suffix,
\* else ONREGELMATIG; the database import_verbs writes has four lists that
\* are pairwise disjoint, each sorted ascending, and whose union is the set
\* of the verbs read.
C20_ClassifyAndImport ==
    /\ pc = "classify_verb" =>
          /\ ret \in FourLists
          /\ ret = ClaimedGroup(call)
          /\ call \in ClassifyInputs
          /\ ret = classify_verb(str_upper(call))
          /\ ret = classify_verb(<<"u0009", " ">> \o str_lower(call) \o <<"u000A">>)
    /\ (pc = "import_verbs" /\ saved) =>
          /\ DOMAIN out_file = FourLists
          /\ \A g, h \in FourLists :
                g # h => list_set(out_file[g]) \cap list_set(out_file[h]) = {}
          /\ \A g \in FourLists : \A i \in 1..(Len(out_file[g]) - 1) :
                str_lt(out_file[g][i], out_file[g][i + 1])
          /\ \A g \in FourLists : \A v \in list_set(out_file[g]) :
                ClaimedGroup(v) = g
          /\ UNION {list_set(out_file[g]) : g \in FourLists} = VerbsRead(data)

C20_Witness ==
    /\ pc = "import_verbs"
    /\ saved
    /\ out_file["ARE"] = <<PARLARE, Parlare>>
    /\ out_file["ERE"] = <<credere>>
    /\ out_file["ONREGELMATIG"] = <<essere_spaced>>

(***************************************************************************)
(* main_updated.py: loading verbs.json (SpecLoad)                          *)
(***************************************************************************)

\* The entries of the files loaded: well-formed ones, the same verb twice,
\* and an entry without infinitive.
LoadEntries ==
    {[infinitive |-> andare, group |-> "ARE", irregular_tenses |-> <<t_presente>>],
     [infinitive |-> andare, group |-> "ARE", irregular_tenses |-> <<>>],
     [infinitive |-> parlare, group |-> "ARE", irregular_tenses |-> <<>>],
     [infinitive |-> porre, group |-> "OTHER", irregular_tenses |-> TENSES],
     [infinitive |-> essere, group |-> "ERE"],
     full_entry(dormire, "IRE", FALSE),
     [group |-> "ARE", irregular_tenses |-> <<>>]}

\* The files verbs.json can be: missing, unreadable, and JSON of each kind.
VerbFiles(n) ==
    {MissingFile, InvalidFile, JsonFile(JsonNumber),
     JsonFile(JsonList(<<>>)), JsonFile(JsonList(<<"ARE", "verbs">>)),
     JsonFile(JsonDict(<<>>)),
     JsonFile(JsonDict(("ARE" :> <<andare, parlare>>)
                           @@ ("ONREGELMATIG" :> <<andare, porre>>))),
     JsonFile(JsonDict(("ARE" :> <<parlare>>) @@ ("ERE" :> <<credere>>)
                           @@ ("IRE" :> <<dormire>>)
                           @@ ("ONREGELMATIG" :> <<essere>>)))}
    \cup {JsonFile(JsonDict("verbs" :> l)) :
             l \in UNION {[1..k -> LoadEntries] : k \in 0..n}}

InitLoad ==
    /\ Blank
    /\ conj = <<>>
    /\ infinitive = <<>>
    /\ root = <<>>
    /\ group = <<>>
    /\ actual_conjugations = <<>>
    /\ data = <<>>
    /\ conjugations = <<>>
    /\ verbs_json \in VerbFiles(MaxVerbs)
    /\ out_file = <<>>
    /\ verb_database = <<>>
    /\ call = <<>>
    /\ ret = ""
    /\ saved = FALSE

\* The module-level verb_database = load_verb_database().
LoadVerbDatabase ==
    /\ pc = "call"
    /\ verb_database' = load_verb_database(verbs_json)
    /\ pc' = "load_verb_database"
    /\ UNCHANGED analyzer_vars
    /\ UNCHANGED <<data, conjugations, verbs_json, out_file, call, ret, saved>>

NextLoad == LoadVerbDatabase

SpecLoad == InitLoad /\ [][NextLoad]_vars

Loaded == pc = "load_verb_database"

\* The file was read and parsed.
Parsed(file) == file.exists /\ file.parses

\* The loaded JSON has a 'verbs' key.
HasVerbsKey(file) ==
    /\ Parsed(file)
    /\ file.json.type = "dict"
    /\ "verbs" \in DOMAIN file.json.dict

\* Every entry under 'verbs' has an infinitive.
Indexable(file) ==
    \A i \in 1..Len(file.json.dict["verbs"]) :
        "infinitive" \in DOMAIN file.json.dict["verbs"][i]

\* verb_index is a dict keyed by the infinitives of the entries.
KeyedByInfinitive(index, entries) ==
    /\ Len(index) = 1
    /\ DOMAIN index[1] = {entries[i]["infinitive"] : i \in 1..Len(entries)}
    /\ \A v \in DOMAIN index[1] :
          /\ index[1][v]["infinitive"] = v
          /\ \E i \in 1..Len(entries) : entries[i] = index[1][v]

\* The built-in old-format result.
IsDefault(db) ==
    /\ db["format"] = "old"
    /\ db["verb_index"] = <<>>
    /\ DOMAIN db["data"] = {"ARE", "ERE", "IRE", "ONREGELMATIG"}
    /\ Len(db["data"]["ARE"]) = 8
    /\ Len(db["data"]["ERE"]) = 8
    /\ Len(db["data"]["IRE"]) = 8
    /\ Len(db["data"]["ONREGELMATIG"]) = 12
    /\ db["data"]["ARE"][1] = parlare
    /\ db["data"]["ONREGELMATIG"][1] = essere

\* C21 as stated: format 'new' with a verb_index keyed by infinitive exactly
\* when the loaded JSON has a 'verbs' key, format 'old' with verb_index None
\* when it has none, and the built-in old-format lists when the file is
\* missing or cannot be read or parsed.
C21_LoadFormat ==
    Loaded =>
        /\ HasVerbsKey(verbs_json) <=> verb_database["format"] = "new"
        /\ HasVerbsKey(verbs_json) =>
              KeyedByInfinitive(verb_database["verb_index"],
                                verbs_json.json.dict["verbs"])
        /\ (Parsed(verbs_json) /\ ~ HasVerbsKey(verbs_json)) =>
              /\ verb_database["format"] = "old"
              /\ verb_database["verb_index"] = <<>>
        /\ ~ Parsed(verbs_json) => IsDefault(verb_database)

\* C21 amended: format 'new' with a verb_index keyed by infinitive exactly
\* when the loaded JSON has a 'verbs' key and every entry under it has an
\* infinitive; format 'old' with verb_index None when the JSON has no
\* 'verbs' key; the built-in old-format lists when the file is missing,
\* cannot be read or parsed, or has a 'verbs' entry without infinitive.
C21_LoadFormatAmended ==
    Loaded =>
        /\ (HasVerbsKey(verbs_json) /\ Indexable(verbs_json))
              <=> verb_database["format"] = "new"
        /\ (HasVerbsKey(verbs_json) /\ Indexable(verbs_json)) =>
              /\ KeyedByInfinitive(verb_database["verb_index"],
                                   verbs_json.json.dict["verbs"])
              /\ verb_database["data"] = verbs_json.json.dict
        /\ (Parsed(verbs_json) /\ ~ HasVerbsKey(verbs_json)) =>
              /\ verb_database["format"] = "old"
              /\ verb_database["verb_index"] = <<>>
        /\ (~ Parsed(verbs_json)
               \/ (HasVerbsKey(verbs_json) /\ ~ Indexable(verbs_json))) =>
              IsDefault(verb_database)

C21_Witness ==
    /\ Loaded
    /\ HasVerbsKey(verbs_json)
    /\ Len(verbs_json.json.dict["verbs"]) = 2
    /\ ~ Indexable(verbs_json)
    /\ verb_database["format"] = "old"
    /\ verb_database["data"]["IRE"][1] = dormire

(***************************************************************************)
(* main_updated.py: GET /quiz (SpecQuiz)                                   *)
(***************************************************************************)

\* s.split(','): the pieces between the commas, empty ones included.
RECURSIVE str_split_comma(_)
str_split_comma(s) ==
    IF \A i \in 1..Len(s) : s[i] # ","
    THEN <<s>>
    ELSE LET i == CHOOSE i \in 1..Len(s) :
                      s[i] = "," /\ \A j \in 1..(i - 1) : s[j] # ","
         IN <<SubSeq(s, 1, i - 1)>> \o str_split_comma(SubSeq(s, i + 1, Len(s)))

\* The keys of tense_map.
tense_map_keys ==
    {t_presente, t_imperfetto, t_futuro, t_passato_remoto, t_trapassato_remoto,
     t_passato_prossimo, t_trapassato_prossimo, t_futuro_anteriore}

personen == <<"io", "tu", "lui", "lei", "noi", "voi", "loro">>

g_REGULAR == <<"R","E","G","U","L","A","R">>

g_IRREGULAR == <<"I","R","R","E","G","U","L","A","R">>

g_ONREGELMATIG == <<"O","N","R","E","G","E","L","M","A","T","I","G">>

\* The database key a group name of the request is; a name no database
\* uses is the key "", which no database holds.
group_key(name) ==
    IF name = ARE THEN "ARE"
    ELSE IF name = ERE THEN "ERE"
    ELSE IF name = IRE THEN "IRE"
    ELSE IF name = OTHER_GROUP THEN "OTHER"
    ELSE IF name = g_REGULAR THEN "REGULAR"
    ELSE IF name = g_IRREGULAR THEN "IRREGULAR"
    ELSE IF name = g_ONREGELMATIG THEN "ONREGELMATIG"
    ELSE ""

is_verb_irregular_for_tense(db, verb, tense) ==
    IF db["format"] = "old"
    THEN verb \in list_set(dict_get(db["data"], "ONREGELMATIG", <<>>))
    ELSE IF verb \in DOMAIN db["verb_index"][1]
         THEN tense \in list_set(dict_get(db["verb_index"][1][verb],
                                          "irregular_tenses", <<>>))
         ELSE FALSE

\* The answers of the handler.
HttpError(code) ==
    [status |-> code, verb |-> <<>>, person |-> "", tense |-> <<>>,
     group |-> <<>>, is_irregular |-> FALSE]

\* get_quiz that does not look the tense up in tense_map.
get_quiz_any_tense(db, tense_str, groep, pick, persoon_index) ==
    LET available_verbs ==
            get_verbs_by_group_and_tense(db, group_key(groep), <<tense_str>>)
    IN IF available_verbs = <<>> THEN HttpError(404)
       ELSE [status |-> 200,
             verb |-> available_verbs[pick],
             person |-> personen[persoon_index + 1],
             tense |-> tense_str,
             group |-> groep,
             is_irregular |->
                 is_verb_irregular_for_tense(db, available_verbs[pick], tense_str)]

\* get_quiz once random.choice took tense_str and groep; pick is the place
\* random.choice takes in available_verbs, persoon_index what randint(0, 6)
\* gives.
get_quiz(db, tense_str, groep, pick, persoon_index) ==
    IF tense_str \notin tense_map_keys THEN HttpError(400)
    ELSE LET available_verbs ==
                 get_verbs_by_group_and_tense(db, group_key(groep), <<tense_str>>)
         IN IF available_verbs = <<>> THEN HttpError(404)
            ELSE [status |-> 200,
                  verb |-> available_verbs[pick],
                  person |-> personen[persoon_index + 1],
                  tense |-> tense_str,
                  group |-> groep,
                  is_irregular |->
                      is_verb_irregular_for_tense(db, available_verbs[pick],
                                                  tense_str)]

MaxChoices == 2    \* most names in the groups and in the tenses of a request

RECURSIVE str_join_comma(_)
str_join_comma(l) ==
    IF l = <<>> THEN <<>>
    ELSE IF Len(l) = 1 THEN l[1]
    ELSE l[1] \o <<",">> \o str_join_comma(Tail(l))

\* The query strings: up to n names from a pool, joined by commas.
QueryStrings(pool, n) ==
    {str_join_comma(l) : l \in UNION {[1..k -> pool] : k \in 0..n}}

QuizDatabases ==
    {MissingFile,
     JsonFile(JsonDict(("ARE" :> <<andare, parlare>>)
                           @@ ("ONREGELMATIG" :> <<andare, porre>>))),
     JsonFile(JsonDict("verbs" :> <<>>)),
     JsonFile(JsonDict("verbs" :>
         << [infinitive |-> andare, group |-> "ARE",
             irregular_tenses |-> <<t_futuro, t_presente>>],
            [infinitive |-> parlare, group |-> "ARE", irregular_tenses |-> <<>>],
            [infinitive |-> essere, group |-> "ERE"] >>)),
     JsonFile(JsonDict("verbs" :>
         << [infinitive |-> andare, group |-> "ARE",
             irregular_tenses |-> <<t_futuro>>],
            [infinitive |-> porre, group |-> "OTHER",
             irregular_tenses |-> TENSES] >>))}

InitQuiz ==
    /\ Blank
    /\ conj = <<>>
    /\ infinitive = <<>>
    /\ root = <<>>
    /\ group = <<>>
    /\ actual_conjugations = <<>>
    /\ data = <<>>
    /\ conjugations = <<>>
    /\ verbs_json \in QuizDatabases
    /\ out_file = <<>>
    /\ verb_database = load_verb_database(verbs_json)
    /\ call = <<>>
    /\ ret = HttpError(0)
    /\ saved = FALSE

\* One request GET /quiz?groups=...&tenses=...; the handler keeps nothing
\* from one request to the next.
GetQuiz(groups, tenses) ==
    /\ pc = "call"
    /\ \E i \in 1..Len(str_split_comma(tenses)),
          j \in 1..Len(str_split_comma(groups)),
          persoon_index \in 0..6 :
          LET tense_str == str_split_comma(tenses)[i]
              groep == str_split_comma(groups)[j]
              n == Len(get_verbs_by_group_and_tense(verb_database,
                           group_key(groep), <<tense_str>>))
          IN \E pick \in 1..(IF n = 0 THEN 1 ELSE n) :
                /\ call' = [groups |-> groups, tenses |-> tenses,
                            tense_str |-> tense_str, groep |-> groep]
                /\ ret' = get_quiz(verb_database, tense_str, groep, pick,
                                   persoon_index)
    /\ pc' = "get_quiz"
    /\ UNCHANGED analyzer_vars
    /\ UNCHANGED <<data, conjugations, verbs_json, out_file, verb_database, saved>>

NextQuiz ==
    \E groups \in QueryStrings({ARE, g_IRREGULAR, <<"X">>}, MaxChoices),
       tenses \in QueryStrings({t_presente, <<"x">>}, MaxChoices) :
        GetQuiz(groups, tenses)

SpecQuiz == InitQuiz /\ [][NextQuiz]_vars

Quizzed == pc = "get_quiz"

\* What get_verbs_by_group_and_tense gives for the group and tense chosen.
Available ==
    get_verbs_by_group_and_tense(verb_database, group_key(call.groep),
                                 <<call.tense_str>>)

\* C22: GET /quiz answers 400 when the tense chosen is no key of tense_map,
\* 404 when get_verbs_by_group_and_tense is empty for the group chosen, and
\* otherwise returns a verb of get_verbs_by_group_and_tense, a person of the
\* 7 in personen, and the tense and group chosen, unchanged.
C22_Quiz ==
    Quizzed =>
        /\ call.tense_str \in list_set(str_split_comma(call.tenses))
        /\ call.groep \in list_set(str_split_comma(call.groups))
        /\ call.tense_str \notin tense_map_keys => ret.status = 400
        /\ (call.tense_str \in tense_map_keys /\ Available = <<>>) =>
              ret.status = 404
        /\ (call.tense_str \in tense_map_keys /\ Available # <<>>) =>
              /\ ret.status = 200
              /\ ret.verb \in list_set(Available)
              /\ ret.person \in {"io", "tu", "lui", "lei", "noi", "voi", "loro"}
              /\ ret.tense = call.tense_str
              /\ ret.group = call.groep

C22_Witness ==
    /\ Quizzed
    /\ verb_database["format"] = "new"
    /\ call.groups = ARE \o <<",">> \o g_IRREGULAR
    /\ call.tenses = <<"x", ",">> \o t_presente
    /\ call.groep = g_IRREGULAR
    /\ ret.status = 200
    /\ ret.verb = andare
    /\ ret.person = "loro"
    /\ ret.is_irregular

(***************************************************************************)
(* backend_de.py: SimpleGermanConjugator (SpecConjugate)                   *)
(***************************************************************************)

v_sein == <<"s","e","i","n">>

v_haben == <<"h","a","b","e","n">>

v_werden == <<"w","e","r","d","e","n">>

v_koennen == <<"k","u00F6","n","n","e","n">>

v_muessen == <<"m","u00FC","s","s","e","n">>

v_wollen == <<"w","o","l","l","e","n">>

v_wissen == <<"w","i","s","s","e","n">>

\* self.irregulars
irregulars ==
    (v_sein :> [present |-> <<<<"b","i","n">>, <<"b","i","s","t">>, <<"i","s","t">>, <<"s","i","n","d">>, <<"s","e","i","d">>, <<"s","i","n","d">>>>,
          imperfect |-> <<<<"w","a","r">>, <<"w","a","r","s","t">>, <<"w","a","r">>, <<"w","a","r","e","n">>, <<"w","a","r","t">>, <<"w","a","r","e","n">>>>,
          perfect_aux |-> v_sein, participle |-> <<"g","e","w","e","s","e","n">>])
    @@ (v_haben :> [present |-> <<<<"h","a","b","e">>, <<"h","a","s","t">>, <<"h","a","t">>, <<"h","a","b","e","n">>, <<"h","a","b","t">>, <<"h","a","b","e","n">>>>,
          imperfect |-> <<<<"h","a","t","t","e">>, <<"h","a","t","t","e","s","t">>, <<"h","a","t","t","e">>, <<"h","a","t","t","e","n">>, <<"h","a","t","t","e","t">>, <<"h","a","t","t","e","n">>>>,
          perfect_aux |-> v_haben, participle |-> <<"g","e","h","a","b","t">>])
    @@ (v_werden :> [present |-> <<<<"w","e","r","d","e">>, <<"w","i","r","s","t">>, <<"w","i","r","d">>, <<"w","e","r","d","e","n">>, <<"w","e","r","d","e","t">>, <<"w","e","r","d","e","n">>>>,
          imperfect |-> <<<<"w","u","r","d","e">>, <<"w","u","r","d","e","s","t">>, <<"w","u","r","d","e">>, <<"w","u","r","d","e","n">>, <<"w","u","r","d","e","t">>, <<"w","u","r","d","e","n">>>>,
          perfect_aux |-> v_sein, participle |-> <<"g","e","w","o","r","d","e","n">>])
    @@ (v_koennen :> [present |-> <<<<"k","a","n","n">>, <<"k","a","n","n","s","t">>, <<"k","a","n","n">>, <<"k","u00F6","n","n","e","n">>, <<"k","u00F6","n","n","t">>, <<"k","u00F6","n","n","e","n">>>>,
          imperfect |-> <<<<"k","o","n","n","t","e">>, <<"k","o","n","n","t","e","s","t">>, <<"k","o","n","n","t","e">>, <<"k","o","n","n","t","e","n">>, <<"k","o","n","n","t","e","t">>, <<"k","o","n","n","t","e","n">>>>,
          perfect_aux |-> v_haben, participle |-> <<"g","e","k","o","n","n","t">>])
    @@ (v_muessen :> [present |-> <<<<"m","u","s","s">>, <<"m","u","s","s","t">>, <<"m","u","s","s">>, <<"m","u00FC","s","s","e","n">>, <<"m","u00FC","s","s","t">>, <<"m","u00FC","s","s","e","n">>>>,
          imperfect |-> <<<<"m","u","s","s","t","e">>, <<"m","u","s","s","t","e","s","t">>, <<"m","u","s","s","t","e">>, <<"m","u","s","s","t","e","n">>, <<"m","u","s","s","t","e","t">>, <<"m","u","s","s","t","e","n">>>>,
          perfect_aux |-> v_haben, participle |-> <<"g","e","m","u","s","s","t">>])
    @@ (v_wollen :> [present |-> <<<<"w","i","l","l">>, <<"w","i","l","l","s","t">>, <<"w","i","l","l">>, <<"w","o","l","l","e","n">>, <<"w","o","l","l","t">>, <<"w","o","l","l","e","n">>>>,
          imperfect |-> <<<<"w","o","l","l","t","e">>, <<"w","o","l","l","t","e","s","t">>, <<"w","o","l","l","t","e">>, <<"w","o","l","l","t","e","n">>, <<"w","o","l","l","t","e","t">>, <<"w","o","l","l","t","e","n">>>>,
          perfect_aux |-> v_haben, participle |-> <<"g","e","w","o","l","l","t">>])
    @@ (v_wissen :> [present |-> <<<<"w","e","i","u00DF">>, <<"w","e","i","u00DF","t">>, <<"w","e","i","u00DF">>, <<"w","i","s","s","e","n">>, <<"w","i","s","s","t">>, <<"w","i","s","s","e","n">>>>,
          imperfect |-> <<<<"w","u","s","s","t","e">>, <<"w","u","s","s","t","e","s","t">>, <<"w","u","s","s","t","e">>, <<"w","u","s","s","t","e","n">>, <<"w","u","s","s","t","e","t">>, <<"w","u","s","s","t","e","n">>>>,
          perfect_aux |-> v_haben, participle |-> <<"g","e","w","u","s","s","t">>])

get_stem(verb) ==
    IF str_endswith(verb, <<"e","n">>) THEN SubSeq(verb, 1, Len(verb) - 2)
    ELSE IF str_endswith(verb, <<"n">>) THEN SubSeq(verb, 1, Len(verb) - 1)
    ELSE verb

\* stem.endswith(suffixes) for a tuple of suffixes.
endswith_any(stem, suffixes) == \E x \in suffixes : str_endswith(stem, x)

needs_e(stem) ==
    \/ endswith_any(stem, {<<"d">>, <<"t">>})
    \/ /\ endswith_any(stem, {<<"m">>, <<"n">>})
       /\ ~ endswith_any(stem, {<<"r","m">>, <<"r","n">>, <<"l","m">>, <<"l","n">>})

s_sound(stem) ==
    endswith_any(stem, {<<"s">>, <<"s","s">>, <<"u00DF">>, <<"z">>, <<"x">>})

\* [f"{a} {word}" for a in forms]
each_followed_by(fs, word) ==
    [i \in 1..Len(fs) |-> fs[i] \o <<" ">> \o word]

\* The auxiliary always taken to be haben.
perfect_aux_haben(verb) == v_haben

\* The verb whose present the perfect of verb is built on.
perfect_aux(verb) ==
    IF verb \in DOMAIN irregulars THEN irregulars[verb].perfect_aux
    ELSE v_haben

\* The regular logic of conjugate, the present of haben given as aux.
regular_forms(verb, tense, aux) ==
    LET stem == get_stem(verb)
        e2 == IF needs_e(stem) THEN <<"e","s","t">>
              ELSE IF s_sound(stem) THEN <<"t">> ELSE <<"s","t">>
        e3 == IF needs_e(stem) THEN <<"e","t">> ELSE <<"t">>
        suffix == IF needs_e(stem) THEN <<"e","t","e">> ELSE <<"t","e">>
        participle ==
            IF str_endswith(verb, <<"i","e","r","e","n">>) THEN stem \o e3
            ELSE <<"g","e">> \o stem \o e3
    IN IF tense = "present"
       THEN <<stem \o <<"e">>, stem \o e2, stem \o e3, stem \o <<"e","n">>,
              stem \o e3, stem \o <<"e","n">> >>
       ELSE IF tense = "imperfect"
       THEN <<stem \o suffix, stem \o suffix \o <<"s","t">>, stem \o suffix,
              stem \o suffix \o <<"n">>, stem \o suffix \o <<"t">>,
              stem \o suffix \o <<"n">> >>
       ELSE IF tense = "perfect" THEN each_followed_by(aux, participle)
       ELSE IF tense = "future"
       THEN each_followed_by(irregulars[v_werden].present, verb)
       ELSE <<>>

\* What conjugate returns for the lowered and stripped verb, aux being what
\* the nested call returned (for the perfect).
conjugate_return(verb, tense, aux) ==
    IF verb \in DOMAIN irregulars
           /\ tense \in {"present", "imperfect", "perfect", "future"}
    THEN IF tense = "present" THEN irregulars[verb].present
         ELSE IF tense = "imperfect" THEN irregulars[verb].imperfect
         ELSE IF tense = "perfect"
         THEN each_followed_by(aux, irregulars[verb].participle)
         ELSE each_followed_by(irregulars[v_werden].present, verb)
    ELSE regular_forms(verb, tense, aux)

MaxVerbLen == 3    \* longest verb drawn from the letters of GermanLetters

GermanLetters == {"e", "n", "t"}

GermanVerbs(n) ==
    {v_sein, v_haben, v_werden, v_koennen, v_muessen, v_wollen, v_wissen,
     <<" ","S","E","I","N","u0009">>, <<"K","u00D6","N","N","E","N">>,
     <<"m","a","c","h","e","n">>, <<"a","r","b","e","i","t","e","n">>,
     <<"s","t","u","d","i","e","r","e","n">>, <<"l","e","r","n","e","n">>,
     <<"t","u","n">>, <<"r","e","i","s","e","n">>, <<"x">>}
    \cup UNION {[1..k -> GermanLetters] : k \in 0..n}

GermanTenses == {"present", "imperfect", "perfect", "future", "presente", ""}

Frame(verb, tense) == [verb |-> verb, tense |-> tense, got |-> FALSE, aux |-> <<>>]

\* data is the stack of the calls of conjugate that have not returned.
InitConjugate ==
    /\ Blank
    /\ conj = <<>>
    /\ infinitive = <<>>
    /\ root = <<>>
    /\ group = <<>>
    /\ actual_conjugations = <<>>
    /\ data = <<>>
    /\ conjugations = <<>>
    /\ verbs_json = <<>>
    /\ out_file = <<>>
    /\ verb_database = <<>>
    /\ call \in {[verb |-> v, tense |-> t] :
                    v \in GermanVerbs(MaxVerbLen), t \in GermanTenses}
    /\ ret = <<>>
    /\ saved = FALSE

\* cg.conjugate(verb, tense) is called.
ConjugateCall ==
    /\ pc = "call"
    /\ data' = <<Frame(call.verb, call.tense)>>
    /\ pc' = "conjugate"
    /\ UNCHANGED analyzer_vars
    /\ UNCHANGED <<conjugations, verbs_json, out_file, verb_database, call, ret, saved>>

\* The innermost call reaches self.conjugate(aux, "present").
ConjugateRecurse ==
    /\ pc = "conjugate"
    /\ LET top == data[Len(data)] IN
       /\ top.tense = "perfect"
       /\ ~ top.got
       /\ data' = Append(data,
                         Frame(perfect_aux(str_strip(str_lower(top.verb))),
                               "present"))
    /\ UNCHANGED pc
    /\ UNCHANGED analyzer_vars
    /\ UNCHANGED <<conjugations, verbs_json, out_file, verb_database, call, ret, saved>>

\* The innermost call returns, to the call that waits for it or to the
\* caller of conjugate.
ConjugateReturn ==
    /\ pc = "conjugate"
    /\ LET top == data[Len(data)]
           returned == conjugate_return(str_strip(str_lower(top.verb)),
                                        top.tense, top.aux)
       IN /\ top.tense = "perfect" => top.got
          /\ IF Len(data) = 1
             THEN /\ ret' = returned
                  /\ data' = <<>>
                  /\ pc' = "done"
             ELSE /\ data' = [SubSeq(data, 1, Len(data) - 1)
                                 EXCEPT ![Len(data) - 1].got = TRUE,
                                        ![Len(data) - 1].aux = returned]
                  /\ UNCHANGED <<ret, pc>>
    /\ UNCHANGED analyzer_vars
    /\ UNCHANGED <<conjugations, verbs_json, out_file, verb_database, call, saved>>

NextConjugate == ConjugateCall \/ ConjugateRecurse \/ ConjugateReturn

SpecConjugate == InitConjugate /\ [][NextConjugate]_vars

FourTenses == {"present", "imperfect", "perfect", "future"}

\* The verb as conjugate looks it up.
LookedUp == str_strip(str_lower(call.verb))

\* What conjugate returned is what the claim says.
ConjugateResult ==
    pc = "done" =>
        /\ call.tense \in FourTenses => Len(ret) = 6
        /\ call.tense \notin FourTenses => ret = <<>>
        /\ LookedUp \in DOMAIN irregulars =>
              /\ call.tense = "present" => ret = irregulars[LookedUp].present
              /\ call.tense = "imperfect" => ret = irregulars[LookedUp].imperfect
              /\ call.tense = "perfect" =>
                    \A i \in 1..6 :
                       ret[i] = irregulars[irregulars[LookedUp].perfect_aux].present[i]
                                    \o <<" ">> \o irregulars[LookedUp].participle
              /\ call.tense = "future" =>
                    \A i \in 1..6 :
                       ret[i] = irregulars[v_werden].present[i] \o <<" ">> \o LookedUp

\* The steps a call of conjugate has left at most: it is called, it calls
\* itself for the auxiliary, the nested call returns, it returns.
StepsLeft ==
    IF pc = "call" THEN 4
    ELSE IF pc = "done" THEN 0
    ELSE IF Len(data) = 2 THEN 2
    ELSE IF data[1].tense = "perfect" /\ ~ data[1].got THEN 3
    ELSE 1

\* C23: conjugate returns exactly 6 forms for every verb and each of the
\* tenses present, imperfect, perfect, future, and an empty list for any
\* other tense; for a verb of the irregular table, present and imperfect
\* are the table's lists, perfect is each present form of the table's
\* auxiliary followed by the participle, future each present form of
\* werden followed by the infinitive; the lookup of the auxiliary ends: the
\* nested call is never nested further, a call that has not returned can
\* take a step, and each step leaves fewer steps to take.
C23_Conjugate ==
    /\ [](ConjugateResult /\ Len(data) <= 2
              /\ (pc # "done" => ENABLED NextConjugate))
    /\ [][StepsLeft' < StepsLeft]_vars

C23_Witness ==
    /\ pc = "done"
    /\ call.verb = <<" ","S","E","I","N","u0009">>
    /\ call.tense = "perfect"
    /\ ret[1] = <<"b","i","n"," ","g","e","w","e","s","e","n">>

(***************************************************************************)
(* compare_with_regular on regular forms in their proper spelling          *)
(***************************************************************************)

\* The six regular forms of a tense, respelled: "accent" with the accented
\* letters proper, "plain" without accents, "upper" in upper case.
Respelled(tense, style) ==
    [i \in 1..6 |-> Styled(RegularForms(infinitive, tense)[i], style)]

\* C24: for a verb in -are, -ere or -ire, when the observed futuro or
\* passato_remoto list is exactly the regular forms, written with their proper accented letters, without
\* accents or in upper case, the report has no entry for that tense.
C24_ProperSpelling ==
    Compared =>
        \A tense \in {"futuro", "passato_remoto"} :
            (/\ get_verb_root(infinitive)[2] \in {ARE, ERE, IRE}
             /\ Comparable(tense)
             /\ \E style \in {"accent", "plain", "upper"} :
                   actual_conjugations[tense] = Respelled(tense, style))
                => tense \notin DOMAIN irregularities

(***************************************************************************)
(* mark_tenses_irregular: the order of the stored list                     *)
(***************************************************************************)

\* A list of str in strictly ascending order: sorted, nothing twice.
StrictlyAscending(l) == \A i \in 1..(Len(l) - 1) : str_lt(l[i], l[i + 1])

\* The stored irregular_tenses of the entry mark_tenses_irregular updates
\* for a verb is strictly ascending.
StoredAscending(db, verb) ==
    /\ find_verb(db["verbs"], verb) # 0
    /\ "irregular_tenses" \in DOMAIN db["verbs"][find_verb(db["verbs"], verb)]
    /\ StrictlyAscending(
           db["verbs"][find_verb(db["verbs"], verb)]["irregular_tenses"])

\* A call that succeeds leaves the verb's list strictly ascending, and no
\* call undoes that for any verb.
MarkSortedStep ==
    /\ (pc' = "mark_tenses_irregular" /\ ret') =>
          StoredAscending(verbs_json', call'.verb)
    /\ \A verb \in {andare, parlare, essere} :
          ("verbs" \in DOMAIN verbs_json /\ StoredAscending(verbs_json, verb)) =>
              StoredAscending(verbs_json', verb)

\* C25: after any sequence of successful calls of mark_tenses_irregular on
\* a verb (adding or removing, any lists of tenses, repeated tenses
\* included), the verb's stored irregular_tenses is sorted ascending and
\* holds no tense twice, even if the list stored before the first call was
\* unsorted or held a tense twice.
C25_StoredSorted == [][MarkSortedStep]_vars

C25_Witness ==
    /\ pc = "mark_tenses_irregular"
    /\ ret = TRUE
    /\ call = [verb |-> andare, tenses |-> <<t_presente, t_presente>>,
               remove |-> FALSE]
    /\ Len(verbs_json["verbs"]) = 2
    /\ verbs_json["verbs"][1]["infinitive"] = parlare
    /\ "irregular_tenses" \notin DOMAIN verbs_json["verbs"][1]
    /\ verbs_json["verbs"][2]["irregular_tenses"] = <<t_futuro, t_presente>>

====
